---- MODULE Spec2Model ----
(***************************************************************************)
(* The reactive signal graph of src/reactive.js: Signals.create,           *)
(* Signals.computed, Signals.computedAsync and Signals.effect / batch.     *)
(*                                                                         *)
(* The program state is the module-level state of reactive.js              *)
(* (_activeContext, _batchPending, _batchQueue, _batchWrappers,            *)
(* _computeStack) and the closure state of every signal (value, subs),     *)
(* computed (deps, unsubs, computing) and async computed (deps, unsubs,    *)
(* currentCancel, the cancel token and context of every run in flight).    *)
(*                                                                         *)
(* One action is one top-level call made by application code, executed to  *)
(* its end: the synchronous cascade of subscriber calls and recomputations *)
(* it causes is computed by the recursive operators below, which thread    *)
(* the whole program state through the call tree in the order the          *)
(* JavaScript executes it.  A batch function is application code: entering *)
(* Signals.batch, the calls its function makes and the finally block are   *)
(* separate actions, batchDepth being the number of Signals.batch frames   *)
(* on the caller's stack.  The continuation of an async run after its      *)
(* await is the action Settle.                                             *)
(***************************************************************************)
EXTENDS Integers, Sequences, FiniteSets, TLC

\* ------------------------------------------------------------- bounds
MaxVal == 1     \* source signals hold 0..MaxVal
MaxDepth == 2   \* nesting depth of Signals.batch calls made by the application
MaxRuns == 3    \* runs of the async computed started in one behaviour
MaxChildren == 2 \* elements appended to one container
MaxOwned == 2   \* entries of the two lists of the component context together
MaxTracked == 2 \* calls that hand something to the component context in one behaviour

\* ------------------------------------------------------------- the application
\* The signals, computeds and subscriber functions the application creates.
UNDEF == -1                         \* JavaScript undefined
SrcSignals == {"a", "b", "tog"}     \* Signals.create(0): a, b ; tog has a custom equals
Computeds == {"dbl", "dyn", "sum", "cyc", "pk", "thr", "slf", "fwd", "bck", "twice", "mul"}
AsyncNode == "asy"
Nodes == Computeds \cup {AsyncNode}
Signals == SrcSignals \cup Nodes
PlainFns == {"f1", "f2"}            \* application callbacks passed to subscribe()
WriterFns == {"fw"}                 \* a callback that writes: (v) => { if (v === 1) a.set(0); }
ObjFn == "o1"                       \* a callback whose subscription is tracked as { unsubscribe }
OnceFns == {"w1"}                   \* the wrapper made by a.once(g1)
OnceTarget(w) == "g1"               \* the callback the wrapper w was made for

\* The component of the application defines state, init, template and mount.
\* The object its state() returns has some of these keys: count is a number,
\* twice the function () => 2, ext a signal made elsewhere, form an object
\* holding signals; the object lists its keys in the order of KeyOrder.
StateKeys == {"count", "twice", "ext", "form"}
KeyOrder == <<"count", "twice", "ext", "form">>
\* The objects state() returns: no key, one key, or every key.
KeySets == {{}, StateKeys} \cup {{k} : k \in StateKeys}
KeyKind == [count |-> "plain", twice |-> "function", ext |-> "signal", form |-> "group"]
TemplateResults == {"html", "noContent", "throws"}
\* The ids the application passes; the document has the element with id "app"
\* while the application keeps it there, and no element with id "body".
ContainerIds == {"app", "body"}
Body == "document.body"
Absent == "absent"
Values == 0..MaxVal

\* The subscriber closures and the event listeners Reactive.scan makes for
\*   <div><span data-text="b"></span><div data-html="a"></div></div>
\* scanned against the scope { a, b }, where a holds html`` (value 0) or
\* html`<input data-model="b">` (any other value):
\*   tx    the subscriber of data-text
\*   ht    the subscriber of data-html
\*   nmd   the subscriber data-model gets in the scan of the children of the
\*         data-html element that ht starts; nmdL its input listener
\*   omd   the subscriber data-model gets when the walker of the outer scan
\*         reaches the input that ht has just rendered; omdL its input listener
\* What the application binds through the component context:
\*   cb    the subscriber of c.bindText(el, a); bind, bindAttr, bindBoolAttr,
\*         bindClass and bindStyle make the same subscription and differ in the
\*         property of el they write
\*   mul   the computed of c.bindMultiple(el, [a, b], ([x, y]) => x + y), and
\*   mb    its subscriber, which writes textContent
\*   onL   the listener of component.on(el, "click", handler)
Bindings == {"tx", "ht", "omd", "nmd", "cb", "mb"}
Listeners == {"omdL", "nmdL"}
OnListener == "onL"
BoundTo(f) == IF f \in {"ht", "cb"} THEN "a" ELSE IF f = "mb" THEN "mul" ELSE "b"
ListenerOf(f) == IF f = "omd" THEN "omdL" ELSE "nmdL"
HtmlChildren(v) == IF v = 0 THEN <<>> ELSE <<"input">>

\* A subscriber is a plain function, the wrapper of a once() or the scheduler
\* closure of a node; the scheduler of node n is written n.
Subscribers == PlainFns \cup {ObjFn} \cup OnceFns \cup Bindings \cup WriterFns \cup Nodes

\* ------------------------------------------------------------- contexts
\* _activeContext is null or a reference to a Set.  The Sets are: the one a
\* computed's run allocates (at most one live per computed, because of the
\* computing guard), the myContext of an async run in flight, and Sets no code
\* reads any more (the myContext of a run that has settled).
NullCtx == [k |-> "null", c |-> "", r |-> 0]
DeadCtx == [k |-> "dead", c |-> "", r |-> 0]
SyncCtx(c) == [k |-> "sync", c |-> c, r |-> 0]
RunCtx(r) == [k |-> "run", c |-> "", r |-> r]

\* A run of the async computed: its cancel token, whether its continuation has
\* run, its myContext, its prev and the value its function read before the
\* await.  SettledRun is what is left of a run nothing refers to any more.
NewRun == [cancelled |-> FALSE, settled |-> FALSE, ctx |-> {}, prev |-> NullCtx, got |-> UNDEF]
SettledRun == [cancelled |-> FALSE, settled |-> TRUE, ctx |-> {}, prev |-> NullCtx, got |-> UNDEF]

\* ------------------------------------------------------------- helpers on ordered sets
\* A JavaScript Set iterates in insertion order; add of a member is a no-op.
Range(q) == {q[i] : i \in 1..Len(q)}
SetAddFront(q, x) == IF x \in Range(q) THEN q ELSE <<x>> \o q
SetAdd(q, x) == IF x \in Range(q) THEN q ELSE Append(q, x)
SetDelete(q, x) == SelectSeq(q, LAMBDA y : y # x)
Front(q) == SubSeq(q, 1, Len(q) - 1)

\* JavaScript evaluates an expression once and goes on with its value:
\* Bind(e, LAMBDA v : F) is  const v = e;  followed by F.
Bind(e, F(_)) == CHOOSE r \in {F(v) : v \in {e}} : TRUE

\* ------------------------------------------------------------- state
VARIABLES
    val,            \* value of every signal (closure variable `value`)
    subs,           \* subscriber Set of every signal, in insertion order
    created,        \* the nodes the application has constructed
    deps,           \* deps of every node
    unsubs,         \* unsubs of every node: the deps it holds an unsubscribe closure for
    computing,      \* computing flag of every computed
    sctx,           \* the Set allocated by the run in progress of every computed
    computeStack,   \* _computeStack
    activeContext,  \* _activeContext
    batchPending,   \* _batchPending
    batchQueue,     \* _batchQueue, in insertion order
    batchWrappers,  \* _batchWrappers: subscriber -> the signal its wrapper reads
    runs,           \* the runs of the async computed, in start order
    currentCancel,  \* currentCancel: index of the run whose token it holds, 0 for null
    onceCalled,     \* called of every once() wrapper
    onceUnsub,      \* whether unsub of every once() wrapper has been assigned
    fields,         \* what the component holds under each key of its state
    dom,            \* the children of every container of the document, or Absent
    mounted,        \* the elements of the document an update() of Reactive.mount writes
    depsRef,        \* which Set deps of a computed refers to, when it is the myContext of an async run
    scanUnsubs,     \* unsubs of the scan of the application, in insertion order
    cleanups,       \* cleanups of the data-html handler of that scan
    listeners,      \* the event listeners installed on the elements
    ctxUnsubs,      \* unsubs of the component context: tracked cleanup callbacks
    ctxComputed,    \* computed of the component context: owned computeds
    batchDepth,     \* Signals.batch frames on the application's call stack
    log,            \* what the last action did, in order (observation)
    lastOp,         \* the last action (observation)
    lastRead,       \* the signals whose get() the last completed run of each computed called (observation)
    hist,           \* facts about the past the claims speak of (observation)
    lastArg,        \* the argument of the latest call of every plain subscriber, where observed (observation)
    missed          \* the computeds a throwing call left without their due run, where observed (observation)

progVars == <<val, subs, created, deps, unsubs, computing, sctx, computeStack,
              activeContext, batchPending, batchQueue, batchWrappers, runs,
              currentCancel, onceCalled, onceUnsub, fields, dom, mounted, depsRef,
              scanUnsubs, cleanups, listeners, ctxUnsubs, ctxComputed>>
vars == <<val, subs, created, deps, unsubs, computing, sctx, computeStack,
          activeContext, batchPending, batchQueue, batchWrappers, runs,
          currentCancel, onceCalled, onceUnsub, fields, dom, mounted, depsRef,
          scanUnsubs, cleanups,
          listeners, ctxUnsubs, ctxComputed, batchDepth, log, lastOp, lastRead,
          hist, lastArg, missed>>

\* The program state as one record, threaded through the call tree.  err is the
\* exception in flight ("none" when there is none).
State == [val |-> val, subs |-> subs, created |-> created, deps |-> deps,
          unsubs |-> unsubs, computing |-> computing, sctx |-> sctx,
          computeStack |-> computeStack, activeContext |-> activeContext,
          batchPending |-> batchPending, batchQueue |-> batchQueue,
          batchWrappers |-> batchWrappers, runs |-> runs,
          currentCancel |-> currentCancel, onceCalled |-> onceCalled,
          onceUnsub |-> onceUnsub, fields |-> fields, dom |-> dom,
          mounted |-> mounted, depsRef |-> depsRef,
          scanUnsubs |-> scanUnsubs, cleanups |-> cleanups, listeners |-> listeners,
          ctxUnsubs |-> ctxUnsubs, ctxComputed |-> ctxComputed,
          err |-> "none", log |-> <<>>,
          lastRead |-> lastRead]


\* ------------------------------------------------------------- observation
\* One entry of log: what happened (k), to or by whom (who), about which signal
\* (sig), with which value (arg), in which async run (r).
Ev(k, who, sig, arg, r) == [k |-> k, who |-> who, sig |-> sig, arg |-> arg, r |-> r]
Note(st, e) == [st EXCEPT !.log = Append(@, e)]
Failed(st) == st.err # "none"

\* ------------------------------------------------------------- Signals.create
TogValues == {0, 1, 2}

\* The equals function each signal was created with.  a, b and the result of a
\* computed use the default (a, b) => a === b.  tog is created with the custom
\* equals (x, y) => !!x === !!y.  The result of the async computed uses the
\* default on object literals allocated by each set: never identical.
Equals(s, x, y) ==
    IF s = AsyncNode THEN FALSE
    ELSE IF s = "tog" THEN (x # 0) = (y # 0)
    ELSE x = y

\* deps = newDeps stores a reference: the deps of a computed whose run ended
\* with the myContext of async run r in _activeContext is that Set
\* (depsRef.run), and so is the deps of the async computed once r has
\* resolved (depsRef.asy: the computeds that share it).  deps holds the
\* members; what is done to the Set shows in the deps of all its holders.
Holders(st, r) == {c \in Computeds : r # 0 /\ st.depsRef.run[c] = r}
Sharers(st, n) ==
    IF n = AsyncNode THEN {AsyncNode} \cup st.depsRef.asy
    ELSE {n} \cup Holders(st, st.depsRef.run[n])
             \cup (IF n \in st.depsRef.asy THEN {AsyncNode} \cup st.depsRef.asy ELSE {})

\* signal.get(): registers the signal in the active context, returns value.
Get(st, s) ==
    LET c == st.activeContext IN
    IF c.k = "sync" THEN [st EXCEPT !.sctx[c.c] = @ \cup {s}]
    ELSE IF c.k = "run"
    THEN [st EXCEPT !.runs[c.r].ctx = @ \cup {s},
                    !.deps = [n \in Nodes |->
                                 IF n \in Holders(st, c.r) THEN @[n] \cup {s} ELSE @[n]]]
    ELSE st

\* signal.peek(): returns value, registers nothing.
PeekTracks(st, s) == Get(st, s)
Peek(st, s) == st

\* The members of the Set a context refers to.
CtxSet(st, c) ==
    IF c.k = "sync" THEN st.sctx[c.c]
    ELSE IF c.k = "run" THEN st.runs[c.r].ctx
    ELSE {}

\* The batched branch of set: for every subscriber, get or create its wrapper in
\* _batchWrappers (the wrapper reads the signal that created it) and add the
\* wrapper to _batchQueue.
Wrapper(f) == [k |-> "wrap", f |-> f]
RunEntry(n) == [k |-> "run", f |-> n]
RECURSIVE EnqueueWrappers(_, _, _)
EnqueueWrappers(st, s, fns) ==
    IF fns = <<>> THEN st
    ELSE Bind(Head(fns), LAMBDA f :
         Bind([st EXCEPT !.batchWrappers[f] = IF @ = "none" THEN s ELSE @,
                         !.batchQueue = SetAdd(@, Wrapper(f))], LAMBDA st1 :
         EnqueueWrappers(st1, s, Tail(fns))))

\* subscribeInternal(fn) and the closure it returns.
SubscribeInternal(st, s, f) == [st EXCEPT !.subs[s] = SetAdd(@, f)]
UnsubClosure(st, s, f) == [st EXCEPT !.subs[s] = SetDelete(@, f)]

\* The dependency rewiring at the end of a successful run of node n: unsubscribe
\* from the deps that are not in newDeps, subscribe the scheduler to the new
\* ones, deps = newDeps.  (Each step touches the subscriber Set of a different
\* signal, so the order of the forEach loops does not show.)
RECURSIVE RemoveUnused(_, _, _)
RemoveUnused(st, n, ds) ==
    IF ds = {} THEN st
    ELSE Bind(CHOOSE x \in ds : TRUE, LAMBDA d :
         Bind(IF d \in st.unsubs[n]
              THEN [UnsubClosure(st, d, n) EXCEPT !.unsubs[n] = @ \ {d}]
              ELSE st, LAMBDA st1 :
         RemoveUnused(st1, n, ds \ {d})))
RECURSIVE AddNew(_, _, _)
AddNewSkips(st, n, ds) == st
AddNew(st, n, ds) ==
    IF ds = {} THEN st
    ELSE Bind(CHOOSE x \in ds : TRUE, LAMBDA d :
         Bind([SubscribeInternal(st, d, n) EXCEPT !.unsubs[n] = @ \cup {d}], LAMBDA st1 :
         AddNew(st1, n, ds \ {d})))
Rewire(st, n, newDeps) ==
    Bind(RemoveUnused(st, n, st.deps[n] \ newDeps), LAMBDA st1 :
    Bind(AddNew(st1, n, newDeps \ st.deps[n]), LAMBDA st2 :
    [st2 EXCEPT !.deps[n] = newDeps]))

\* const newDeps = _activeContext ... deps = newDeps in the run of computed c:
\* the Set c now holds is the one ctx refers to.
RewireTo(st, c, ctx) ==
    Bind(Rewire(st, c, CtxSet(st, ctx)), LAMBDA st1 :
    [st1 EXCEPT !.depsRef.run[c] = IF ctx.k = "run" THEN ctx.r ELSE 0,
                !.depsRef.asy = @ \ {c}])
\* const newDeps = myContext ... deps = newDeps in the continuation of run r.
RewireAsync(st, r, newDeps) ==
    Bind(Rewire(st, AsyncNode, newDeps), LAMBDA st1 :
    [st1 EXCEPT !.depsRef.asy = Holders(st, r)])

\* The state published for a run that starts, resolves, rejects.
ErrNull == "null"
PendingStateDropsData(old) == [status |-> "pending", data |-> UNDEF, error |-> ErrNull, loading |-> TRUE]
PendingState(old) == [status |-> "pending", data |-> old.data, error |-> ErrNull, loading |-> TRUE]
ResolvedState(v) == [status |-> "resolved", data |-> v, error |-> ErrNull, loading |-> FALSE]
ErrorStateDropsData(old, e) == [status |-> "error", data |-> UNDEF, error |-> e, loading |-> FALSE]
ErrorState(old, e) == [status |-> "error", data |-> old.data, error |-> e, loading |-> FALSE]

RECURSIVE SignalSet(_, _, _)
RECURSIVE NotifySubs(_, _, _)
RECURSIVE CallSub(_, _, _)
RECURSIVE RunComputed(_, _)
RECURSIVE ComputeFn(_, _)
RECURSIVE AsyncRun(_)
RECURSIVE BindingFn(_, _, _)

\* scheduler of a computed and of the async computed.
Scheduler(st, n) ==
    IF st.batchPending THEN [st EXCEPT !.batchQueue = SetAdd(@, RunEntry(n))]
    ELSE IF n = AsyncNode THEN AsyncRun(st)
    ELSE RunComputed(st, n)

\* The wrapper of once(): the first call sets called, calls the callback and
\* calls unsub if it has been assigned; later calls do nothing.  The wrapper
\* was subscribed to signal a, whose subscriber Set its unsub deletes from.
OnceWrapperUnguarded(st, w, s) ==
    Note(st, Ev("call", OnceTarget(w), s, st.val[s], 0))
OnceWrapper(st, w, s) ==
    IF st.onceCalled[w] THEN st
    ELSE Bind(Note([st EXCEPT !.onceCalled[w] = TRUE],
                   Ev("call", OnceTarget(w), s, st.val[s], 0)), LAMBDA s1 :
         IF s1.onceUnsub[w] THEN UnsubClosure(s1, "a", w) ELSE s1)

\* A subscriber f called with the value of signal s.  A plain function records
\* the call; a scheduler ignores its argument.
WriterFn(st, f, s) ==
    Bind(Note(st, Ev("call", f, s, st.val[s], 0)), LAMBDA s1 :
    IF st.val[s] = 1 THEN SignalSet(s1, "a", 0) ELSE s1)
CallSub(st, f, s) ==
    IF f \in PlainFns \cup {ObjFn} THEN Note(st, Ev("call", f, s, st.val[s], 0))
    ELSE IF f \in WriterFns THEN WriterFn(st, f, s)
    ELSE IF f \in OnceFns THEN OnceWrapper(st, f, s)
    ELSE IF f \in Bindings THEN BindingFn(st, f, s)
    ELSE Scheduler(st, f)

\* signal.subscribe(fn) called by library code: add fn, call it with the value.
SubscribeFn(st, s, f) == CallSub([st EXCEPT !.subs[s] = SetAdd(@, f)], f, s)

\* The data-model handler for the rendered input: the subscription, whose
\* unsubscribe closure goes to the unsubs of the scan that called the handler,
\* and the input listener.  The closure the handler returns removes the
\* listener.
DataModel(st, f) ==
    Bind(SubscribeFn(st, BoundTo(f), f), LAMBDA s1 :
    [s1 EXCEPT !.listeners = @ \cup {ListenerOf(f)}])

\* The cleanup function of the scan of a child of the data-html element: its
\* unsubs hold the unsubscribe closure of nmd and the removal of nmdL.
ChildCleanup(st) ==
    [UnsubClosure(st, BoundTo("nmd"), "nmd") EXCEPT !.listeners = @ \ {"nmdL"}]
RECURSIVE RunCleanups(_, _)
RunCleanups(st, fs) ==
    IF fs = <<>> THEN st ELSE RunCleanups(ChildCleanup(st), Tail(fs))
RECURSIVE ScanChildren(_, _)
ScanChildren(st, children) ==
    IF children = <<>> THEN st
    ELSE Bind(DataModel(st, "nmd"), LAMBDA s1 :
         ScanChildren([s1 EXCEPT !.cleanups = Append(@, Head(children))],
                      Tail(children)))

\* The subscribers the handlers of scan make.  data-text writes textContent;
\* data-model writes el.value (a string, never identical to the number the
\* signal holds); data-html runs the cleanups of the scans of its children,
\* writes innerHTML and scans the new children.
BindingFn(st, f, s) ==
    IF f = "ht"
    THEN Bind(RunCleanups(st, st.cleanups), LAMBDA s1 :
         Bind(Note([s1 EXCEPT !.cleanups = <<>>],
                   Ev("dom", f, s, s1.val[s], 0)), LAMBDA s2 :
         ScanChildren(s2, HtmlChildren(s2.val[s]))))
    ELSE Note(st, Ev("dom", f, s, st.val[s], 0))

\* Reactive.scan(root, scope): the walker reaches the span, the data-html
\* element and, when the handler of data-html has rendered it, the input.
ScanRoot(st) ==
    Bind(SubscribeFn(st, BoundTo("tx"), "tx"), LAMBDA s1 :
    Bind([s1 EXCEPT !.scanUnsubs = Append(@, "tx")], LAMBDA s2 :
    Bind(SubscribeFn(s2, BoundTo("ht"), "ht"), LAMBDA s3 :
    Bind([s3 EXCEPT !.scanUnsubs = Append(@, "ht")], LAMBDA s4 :
    IF HtmlChildren(s4.val[BoundTo("ht")]) = <<>> THEN s4
    ELSE Bind(DataModel(s4, "omd"), LAMBDA s5 :
         [s5 EXCEPT !.scanUnsubs = @ \o <<"omd", "omdL">>])))))

\* One member of unsubs called by the cleanup function scan returned.
ScanUnsub(st, u) ==
    IF u \in Listeners THEN [st EXCEPT !.listeners = @ \ {u}]
    ELSE IF u = "ht"
    THEN UnsubClosure(RunCleanups(st, st.cleanups), BoundTo(u), u)
    ELSE UnsubClosure(st, BoundTo(u), u)
RECURSIVE ScanCleanup(_, _)
ScanCleanup(st, us) ==
    IF us = <<>> THEN st ELSE ScanCleanup(ScanUnsub(st, Head(us)), Tail(us))

\* for (const fn of [...subs]) fn(value): the snapshot fns is called in order,
\* each with the value the signal holds at the moment of the call; an exception
\* ends the loop.
NotifySubs(st, s, fns) ==
    IF fns = <<>> \/ Failed(st) THEN st
    ELSE Bind(CallSub(st, Head(fns), s), LAMBDA st1 :
         NotifySubs(st1, s, Tail(fns)))

SignalSetNoGate(st, s, newVal) ==
    Bind(Note([st EXCEPT !.val[s] = newVal], Ev("write", "", s, newVal, 0)), LAMBDA st1 :
    IF st1.batchPending
    THEN EnqueueWrappers(st1, s, st1.subs[s])
    ELSE NotifySubs(st1, s, st1.subs[s]))

\* signal.set(newVal)
SignalSet(st, s, newVal) ==
    IF Equals(s, st.val[s], newVal) THEN st
    ELSE Bind(Note([st EXCEPT !.val[s] = newVal], Ev("write", "", s, newVal, 0)), LAMBDA st1 :
         IF st1.batchPending
         THEN EnqueueWrappers(st1, s, st1.subs[s])
         ELSE NotifySubs(st1, s, st1.subs[s]))

\* The compute functions of the application, evaluated in the state st:
\*   dbl = computed(() => a.get() * 2)
\*   dyn = computed(() => tog.get() ? a.get() : b.get())
\*   sum = computed(() => dbl.get() + a.get())
\*   cyc = computed(() => { const v = b.get(); if (v === 0) b.set(1); return v; })
\*   pk  = computed(() => a.peek() + b.get())
\*   thr = computed(() => { const v = a.get();
\*                          if (v === 1) { b.get(); throw new Error("Computation failed"); }
\*                          return v; })
\*   slf = computed(() => (slf ? slf.get() : a.get()) + 1)
\*   fwd = computed(() => { const v = a.get(); b.set(v); return v; })
\*   bck = computed(() => { const v = b.get(); a.set(v === 0 ? 1 : 0); return v; })
\* The result is the state after the function, the value it returned and the
\* signals whose get() it called.
ComputeError == "Computation failed"
ComputeFn(st, c) ==
    IF c = "dbl" THEN
        Bind(Get(st, "a"), LAMBDA s1 :
        [st |-> s1, value |-> 2 * s1.val["a"], reads |-> {"a"}])
    ELSE IF c = "dyn" THEN
        Bind(Get(st, "tog"), LAMBDA s1 :
        IF s1.val["tog"] # 0
        THEN Bind(Get(s1, "a"), LAMBDA s2 :
             [st |-> s2, value |-> s2.val["a"], reads |-> {"tog", "a"}])
        ELSE Bind(Get(s1, "b"), LAMBDA s2 :
             [st |-> s2, value |-> s2.val["b"], reads |-> {"tog", "b"}]))
    ELSE IF c = "sum" THEN
        Bind(Get(st, "dbl"), LAMBDA s1 :
        Bind(Get(s1, "a"), LAMBDA s2 :
        [st |-> s2, value |-> s2.val["dbl"] + s2.val["a"], reads |-> {"dbl", "a"}]))
    ELSE IF c = "thr" THEN
        Bind(Get(st, "a"), LAMBDA s1 :
        IF s1.val["a"] = 1
        THEN Bind(Get(s1, "b"), LAMBDA s2 :
             [st |-> [s2 EXCEPT !.err = ComputeError], value |-> UNDEF,
              reads |-> {"a", "b"}])
        ELSE [st |-> s1, value |-> s1.val["a"], reads |-> {"a"}])
    ELSE IF c = "slf" THEN
        IF "slf" \in st.created
        THEN Bind(Get(st, "slf"), LAMBDA s1 :
             [st |-> s1, value |-> s1.val["slf"] + 1, reads |-> {"slf"}])
        ELSE Bind(Get(st, "a"), LAMBDA s1 :
             [st |-> s1, value |-> s1.val["a"] + 1, reads |-> {"a"}])
    ELSE IF c = "fwd" THEN
        Bind(Get(st, "a"), LAMBDA s1 :
        Bind(s1.val["a"], LAMBDA v :
        Bind(SignalSet(s1, "b", v), LAMBDA s2 :
        [st |-> s2, value |-> v, reads |-> {"a"}])))
    ELSE IF c = "bck" THEN
        Bind(Get(st, "b"), LAMBDA s1 :
        Bind(s1.val["b"], LAMBDA v :
        Bind(SignalSet(s1, "a", IF v = 0 THEN 1 ELSE 0), LAMBDA s2 :
        [st |-> s2, value |-> v, reads |-> {"b"}])))
    ELSE IF c = "twice" THEN
        [st |-> st, value |-> 2, reads |-> {}]
    ELSE IF c = "mul" THEN
        Bind(Get(st, "a"), LAMBDA s1 :
        Bind(Get(s1, "b"), LAMBDA s2 :
        [st |-> s2, value |-> s2.val["a"] + s2.val["b"], reads |-> {"a", "b"}]))
    ELSE IF c = "pk" THEN
        Bind(Peek(st, "a"), LAMBDA s1 :
        Bind(Get(s1, "b"), LAMBDA s2 :
        [st |-> s2, value |-> s2.val["a"] + s2.val["b"], reads |-> {"b"}]))
    ELSE
        Bind(Get(st, "b"), LAMBDA s1 :
        Bind(s1.val["b"], LAMBDA v :
        Bind(IF v = 0 THEN SignalSet(s1, "b", 1) ELSE s1, LAMBDA s2 :
        [st |-> s2, value |-> v, reads |-> {"b"}])))


\* What a run records when it starts and when its finally block is done.
Started(st, c) ==
    Ev("run", c, c, [stack |-> Append(st.computeStack, c),
                     prevStack |-> st.computeStack,
                     prevCtx |-> st.activeContext], 0)
Ended(st, c) ==
    Ev("end", c, c, [stack |-> st.computeStack, ctx |-> st.activeContext,
                     err |-> st.err], 0)

\* The try block of run: fn(), result.set(value), the rewiring.
RunTryRewiresAnyway(st, c) ==
    Bind(ComputeFn(st, c), LAMBDA r :
    Bind(IF Failed(r.st) THEN r.st ELSE SignalSet(r.st, c, r.value), LAMBDA s2 :
    [RewireTo(s2, c, s2.activeContext) EXCEPT !.lastRead[c] = r.reads]))
RunTrySwallows(st, c) ==
    Bind(ComputeFn(st, c), LAMBDA r :
    Bind(IF Failed(r.st) THEN r.st ELSE SignalSet(r.st, c, r.value), LAMBDA s2 :
    IF Failed(s2) THEN [s2 EXCEPT !.err = "none"]
    ELSE [RewireTo(s2, c, s2.activeContext)
            EXCEPT !.lastRead[c] = r.reads]))
RunTry(st, c) ==
    Bind(ComputeFn(st, c), LAMBDA r :
    Bind(IF Failed(r.st) THEN r.st ELSE SignalSet(r.st, c, r.value), LAMBDA s2 :
    IF Failed(s2) THEN s2
    ELSE [RewireTo(s2, c, s2.activeContext)
            EXCEPT !.lastRead[c] = r.reads]))

\* The finally block of run.
RunFinallyOnSuccessOnly(st, c, prev) ==
    IF Failed(st) THEN Note([st EXCEPT !.computing[c] = FALSE, !.sctx[c] = {}], Ended(st, c))
    ELSE Bind([st EXCEPT !.computeStack = Front(@),
                         !.activeContext = prev,
                         !.computing[c] = FALSE,
                         !.sctx[c] = {}], LAMBDA s4 :
         Note(s4, Ended(s4, c)))
RunFinally(st, c, prev) ==
    Bind([st EXCEPT !.computeStack = Front(@),
                    !.activeContext = prev,
                    !.computing[c] = FALSE,
                    !.sctx[c] = {}], LAMBDA s4 :
    Note(s4, Ended(s4, c)))

CycleError == "Circular dependency detected in computed signal"

\* run of Signals.computed
RunComputedNoGuard(st, c) ==
    Bind(st.activeContext, LAMBDA prev :
    Bind(Note([st EXCEPT !.computing[c] = TRUE,
                         !.computeStack = Append(@, c),
                         !.activeContext = SyncCtx(c),
                         !.sctx[c] = {}],
              Started(st, c)), LAMBDA s0 :
    Bind(RunTry(s0, c), LAMBDA s3 :
    RunFinally(s3, c, prev))))
RunComputedCycleFirst(st, c) ==
    IF c \in Range(st.computeStack)
    THEN [Note(st, Ev("cycle", c, c, 0, 0)) EXCEPT !.err = CycleError]
    ELSE IF st.computing[c] THEN Note(st, Ev("skip", c, c, 0, 0))
    ELSE
        Bind(st.activeContext, LAMBDA prev :
        Bind(Note([st EXCEPT !.computing[c] = TRUE, !.computeStack = Append(@, c),
                             !.activeContext = SyncCtx(c), !.sctx[c] = {}],
                  Started(st, c)), LAMBDA s0 :
        Bind(RunTry(s0, c), LAMBDA s3 :
        RunFinally(s3, c, prev))))
RunComputed(st, c) ==
    IF st.computing[c] THEN Note(st, Ev("skip", c, c, 0, 0))
    ELSE IF c \in Range(st.computeStack)
    THEN [Note(st, Ev("cycle", c, c, 0, 0)) EXCEPT !.err = CycleError]
    ELSE
        Bind(st.activeContext, LAMBDA prev :
        Bind(Note([st EXCEPT !.computing[c] = TRUE,
                             !.computeStack = Append(@, c),
                             !.activeContext = SyncCtx(c),
                             !.sctx[c] = {}],
                  Started(st, c)), LAMBDA s0 :
        \* try ... catch: console.error, rethrow ... finally
        Bind(RunTry(s0, c), LAMBDA s3 :
        RunFinally(s3, c, prev))))

\* run of Signals.computedAsync up to the await: cancel the previous token,
\* publish pending, install the run's own context, call fn, whose synchronous
\* part is  const val = a.get();  and which then awaits.  An exception thrown
\* before the try block rejects the promise run() returns, which nobody
\* awaits: the run ends there and the caller sees nothing.
AsyncRunNoCancel(st) ==
    Bind(Len(st.runs) + 1, LAMBDA r :
    Bind(Note([st EXCEPT !.runs = Append(@, NewRun), !.currentCancel = r],
              Ev("start", AsyncNode, AsyncNode, 0, r)), LAMBDA s1 :
    Bind(PendingState(s1.val[AsyncNode]), LAMBDA pend :
    Bind(Note(s1, Ev("publish", AsyncNode, AsyncNode, pend, r)), LAMBDA s1p :
    Bind(SignalSet(s1p, AsyncNode, pend), LAMBDA s2 :
    IF Failed(s2)
    THEN [s2 EXCEPT !.err = "none", !.runs[r] = SettledRun]
    ELSE Bind([s2 EXCEPT !.runs[r].prev = s2.activeContext,
                         !.activeContext = RunCtx(r)], LAMBDA s3 :
         Bind(Get(s3, "a"), LAMBDA s4 :
         [s4 EXCEPT !.runs[r].got = s4.val["a"]])))))))
AsyncRun(st) ==
    IF Len(st.runs) > MaxRuns THEN st   \* beyond the bound: the call is not followed
    ELSE
    Bind(IF st.currentCancel # 0
         THEN [st EXCEPT !.runs[st.currentCancel].cancelled = TRUE]
         ELSE st, LAMBDA s0 :
    Bind(Len(s0.runs) + 1, LAMBDA r :
    Bind(Note([s0 EXCEPT !.runs = Append(@, NewRun), !.currentCancel = r],
              Ev("start", AsyncNode, AsyncNode, 0, r)), LAMBDA s1 :
    Bind(PendingState(s1.val[AsyncNode]), LAMBDA pend :
    Bind(Note(s1, Ev("publish", AsyncNode, AsyncNode, pend, r)), LAMBDA s1p :
    Bind(SignalSet(s1p, AsyncNode, pend), LAMBDA s2 :
    IF Failed(s2)
    THEN [s2 EXCEPT !.err = "none", !.runs[r] = SettledRun]
    ELSE Bind([s2 EXCEPT !.runs[r].prev = s2.activeContext,
                         !.activeContext = RunCtx(r)], LAMBDA s3 :
         Bind(Get(s3, "a"), LAMBDA s4 :
         [s4 EXCEPT !.runs[r].got = s4.val["a"]]))))))))

\* The continuation of run r after its await.  ok: the promise of fn resolved
\* with the value read before the await; otherwise it rejected.
AsyncError == "E"
CatchBlockRethrows(st, r, e) == [st EXCEPT !.activeContext = st.runs[r].prev, !.err = e]
CatchBlockUnchecked(st, r, e) ==
    Bind(ErrorState(st.val[AsyncNode], e), LAMBDA res :
    Bind(Note(st, Ev("publish", AsyncNode, AsyncNode, res, r)), LAMBDA p0 :
    Bind(SignalSet(p0, AsyncNode, res), LAMBDA p1 :
    IF Failed(p1) THEN p1 ELSE [p1 EXCEPT !.activeContext = st.runs[r].prev])))
CatchBlock(st, r, e) ==
    IF st.runs[r].cancelled
    THEN Note([st EXCEPT !.activeContext = st.runs[r].prev], Ev("discard", AsyncNode, AsyncNode, 0, r))
    ELSE Bind(ErrorState(st.val[AsyncNode], e), LAMBDA res :
         Bind(Note(st, Ev("publish", AsyncNode, AsyncNode, res, r)), LAMBDA p0 :
         Bind(SignalSet(p0, AsyncNode, res), LAMBDA p1 :
         IF Failed(p1) THEN p1 ELSE [p1 EXCEPT !.activeContext = st.runs[r].prev])))
TryBlockUnchecked(st, r) ==
    Bind(ResolvedState(st.runs[r].got), LAMBDA res :
    Bind(Note(st, Ev("publish", AsyncNode, AsyncNode, res, r)), LAMBDA p0 :
    Bind(SignalSet(p0, AsyncNode, res), LAMBDA p1 :
    Bind([p1 EXCEPT !.activeContext = st.runs[r].prev], LAMBDA p2 :
    RewireAsync(p2, r, p1.runs[r].ctx)))))
TryBlock(st, r) ==
    IF st.runs[r].cancelled
    THEN Note([st EXCEPT !.activeContext = st.runs[r].prev], Ev("discard", AsyncNode, AsyncNode, 0, r))
    ELSE Bind(ResolvedState(st.runs[r].got), LAMBDA res :
         Bind(Note(st, Ev("publish", AsyncNode, AsyncNode, res, r)), LAMBDA p0 :
         Bind(SignalSet(p0, AsyncNode, res), LAMBDA p1 :
         IF Failed(p1)
         THEN Bind([p1 EXCEPT !.err = "none"], LAMBDA p2 : CatchBlock(p2, r, p1.err))
         ELSE Bind([p1 EXCEPT !.activeContext = st.runs[r].prev], LAMBDA p2 :
              RewireAsync(p2, r, p1.runs[r].ctx)))))
SettleRun(st, r, ok) ==
    Bind(IF ok THEN TryBlock(st, r) ELSE CatchBlock(st, r, AsyncError), LAMBDA s1 :
    \* finally
    IF s1.currentCancel = r THEN [s1 EXCEPT !.currentCancel = 0] ELSE s1)

\* Once run r has settled nothing reads its token or its locals.  Its
\* myContext lives on as deps where a node holds it (depsRef); the references
\* left to it in _activeContext and in the prev of a later run are to a Set
\* no deps refers to: a run that started while it was the active context has
\* cancelled r, and the run of a computed inside which r and that later run
\* started ended with the Set of the later one.
Forget(c, r) == IF c.k = "run" /\ c.r = r THEN DeadCtx ELSE c
Retire(st, r) ==
    [st EXCEPT !.activeContext = Forget(@, r),
               !.runs = [i \in 1..Len(@) |->
                           IF i = r THEN SettledRun
                           ELSE [@[i] EXCEPT !.prev = Forget(@, r)]],
               !.err = "none"]

\* dispose of a computed and of the async computed
DisposeNode(st, n) ==
    Bind(IF n = AsyncNode /\ st.currentCancel # 0
         THEN [st EXCEPT !.runs[st.currentCancel].cancelled = TRUE]
         ELSE st, LAMBDA s0 :
    Bind(RemoveUnused(s0, n, s0.unsubs[n]), LAMBDA s1 :
    \* deps.clear() empties the Set, for every holder of it and for the run
    \* whose myContext it is
    [s1 EXCEPT !.unsubs[n] = {},
               !.deps = [m \in Nodes |-> IF m \in Sharers(s1, n) THEN {} ELSE @[m]],
               !.runs = [i \in 1..Len(@) |->
                           IF n \in Holders(s1, i) THEN [@[i] EXCEPT !.ctx = {}] ELSE @[i]],
               !.lastRead = IF n \in Computeds THEN [@ EXCEPT ![n] = {}] ELSE @]))

\* The flush in the finally block of Signals.effect: every callback of the
\* snapshot q is called once, in order; an exception ends the loop.  A wrapper
\* is () => fn(signal.get()) for the signal that created it.
RECURSIVE FlushQueue(_, _)
FlushQueueContinues(st, q) ==
    IF q = <<>> THEN st
    ELSE Bind(Head(q), LAMBDA e :
         Bind(IF e.k = "wrap"
              THEN Bind(st.batchWrappers[e.f], LAMBDA sg :
                   Bind(Get(st, sg), LAMBDA s0 : CallSub(s0, e.f, sg)))
              ELSE IF e.f = AsyncNode THEN AsyncRun(st)
              ELSE RunComputed(st, e.f), LAMBDA st1 :
         FlushQueue(st1, Tail(q))))
FlushQueue(st, q) ==
    IF q = <<>> \/ Failed(st) THEN st
    ELSE Bind(Head(q), LAMBDA e :
         Bind(IF e.k = "wrap"
              THEN Bind(st.batchWrappers[e.f], LAMBDA sg :
                   Bind(Get(st, sg), LAMBDA s0 : CallSub(s0, e.f, sg)))
              ELSE IF e.f = AsyncNode THEN AsyncRun(st)
              ELSE RunComputed(st, e.f), LAMBDA st1 :
         FlushQueue(st1, Tail(q))))
EffectFinallyClearsLate(st) ==
    Bind(FlushQueue([st EXCEPT !.batchPending = FALSE], st.batchQueue), LAMBDA s1 :
    IF Failed(s1) THEN s1 ELSE [s1 EXCEPT !.batchQueue = <<>>])
EffectFinally(st) ==
    Bind([st EXCEPT !.batchPending = FALSE, !.batchQueue = <<>>], LAMBDA s0 :
    FlushQueue(s0, st.batchQueue))

\* Signals.batch(fn) when fn throws: the finally block runs with the exception
\* of fn pending; an exception of the flush takes its place.
BatchFnError == "Batch function failed"
EffectThrowsNoFinally(st) == [st EXCEPT !.err = BatchFnError]
EffectThrows(st) ==
    Bind(EffectFinally(st), LAMBDA s1 :
    IF Failed(s1) THEN s1 ELSE [s1 EXCEPT !.err = BatchFnError])

\* ------------------------------------------------------------- Component
\* computed of the component context: Signals.computed(fn), whose first run
\* happens in the constructor, then the computed is pushed onto the list.
ContextComputed(st, c) ==
    Bind(RunComputed(st, c), LAMBDA s1 :
    IF Failed(s1) THEN s1
    ELSE [s1 EXCEPT !.created = @ \cup {c}, !.ctxComputed = Append(@, c)])

\* _proc, for one entry of the state object: what is assigned to this[k].  A
\* function becomes a computed made through the component context.  Every
\* initState makes a new one; the computeds made from twice read nothing and
\* hold 2 after their first run, so they are the one node "twice", which
\* starts undefined each time.
ProcEntry(st, k) ==
    IF KeyKind[k] = "function"
    THEN Bind(ContextComputed([st EXCEPT !.val[k] = UNDEF], k), LAMBDA s1 :
         IF Failed(s1) THEN s1 ELSE [s1 EXCEPT !.fields[k] = "computed"])
    ELSE IF KeyKind[k] = "signal" THEN [st EXCEPT !.fields[k] = "signal"]
    ELSE IF KeyKind[k] = "group" THEN [st EXCEPT !.fields[k] = "group"]
    ELSE [st EXCEPT !.fields[k] = "signal"]
RECURSIVE ProcEntries(_, _)
ProcEntries(st, ks) ==
    IF ks = <<>> \/ Failed(st) THEN st
    ELSE ProcEntries(ProcEntry(st, Head(ks)), Tail(ks))
Proc(st, keys) == ProcEntries(st, SelectSeq(KeyOrder, LAMBDA k : k \in keys))

\* The hooks of the component record their call; init records what it finds
\* under the keys of the component.
Hook(st, name, seen) == Note(st, Ev("hook", name, "", seen, 0))
InitStateProcLate(st, keys) ==
    Bind(Hook(st, "state", keys), LAMBDA s1 :
    Bind(Hook(s1, "init", s1.fields), LAMBDA s2 : Proc(s2, keys)))
InitState(st, keys) ==
    Bind(Hook(st, "state", keys), LAMBDA s1 :
    Bind(Proc(s1, keys), LAMBDA s2 :
    Hook(s2, "init", s2.fields)))

\* render(): the element made from the template, or the error element when
\* template() throws or returns something without content.  The element made
\* from the template is scanned: it has no binding attribute, and the cleanup
\* the scan returns is tracked by the component context.
ScanCleanupFn == "scanCleanup"
Render(st, tpl) ==
    Bind(Hook(st, "template", tpl), LAMBDA s1 :
    IF tpl = "html"
    THEN [st |-> [s1 EXCEPT !.ctxUnsubs = Append(@, ScanCleanupFn)], element |-> "el"]
    ELSE [st |-> s1, element |-> "errorEl"])

GetElementById(st, id) == IF id = "app" /\ st.dom["app"] # Absent THEN "app" ELSE "null"
Returned(st, v) == [st |-> st, ret |-> v]

MountToUnchecked(st, id, keys, tpl) ==
    Bind(GetElementById(st, id), LAMBDA container :
    Bind(InitState(st, keys), LAMBDA s1 :
    Bind(Render(s1, tpl), LAMBDA r :
    Bind(IF container = "null" THEN r.st
         ELSE [r.st EXCEPT !.dom[container] = <<r.element>>], LAMBDA s2 :
    Bind(Hook(s2, "mount", 0), LAMBDA s3 : Returned(s3, r.element))))))
MountTo(st, id, keys, tpl) ==
    Bind(GetElementById(st, id), LAMBDA container :
    IF container = "null"
    THEN Returned(Note(st, Ev("console", "error", id, 0, 0)), "null")
    ELSE Bind(InitState(st, keys), LAMBDA s1 :
         Bind(Render(s1, tpl), LAMBDA r :
         Bind([r.st EXCEPT !.dom[container] = <<r.element>>], LAMBDA s2 :
         Bind(Hook(s2, "mount", 0), LAMBDA s3 : Returned(s3, r.element))))))
AppendTo(st, id, keys, tpl) ==
    Bind(IF id = "body" THEN Body ELSE GetElementById(st, id), LAMBDA container :
    IF container = "null"
    THEN Returned(Note(st, Ev("console", "warn", id, 0, 0)), "null")
    ELSE Bind(InitState(st, keys), LAMBDA s1 :
         Bind(Render(s1, tpl), LAMBDA r :
         Bind([r.st EXCEPT !.dom[container] = Append(@, r.element)], LAMBDA s2 :
         Bind(Hook(s2, "mount", 0), LAMBDA s3 : Returned(s3, r.element))))))

\* Reactive.mount(el, fn): update() sets el.innerHTML to what fn returns, and
\* the object holding update is returned.  fn returns nothing (reading __safe
\* of it throws), a string without markup, or html`...` with n root elements.
\* The children of el are replaced by the elements of the content; those of
\* document.body include the container.
TypeError == "TypeError"
MountedEl == "p"
MountResults ==
    {[k |-> "none", n |-> 0], [k |-> "string", n |-> 0]}
        \cup {[k |-> "html", n |-> i] : i \in 0..MaxChildren}
RECURSIVE Elements(_)
Elements(n) == IF n = 0 THEN <<>> ELSE Append(Elements(n - 1), MountedEl)
Update(st, el, res) ==
    IF res.k = "none" THEN [st EXCEPT !.err = TypeError]
    ELSE [st EXCEPT !.dom = [c \in DOMAIN @ |->
                                IF c = el THEN Elements(res.n)
                                ELSE IF el = Body THEN Absent
                                ELSE @[c]],
                    !.mounted = IF el = Body THEN @ \cap {Body} ELSE @]
ReactiveMount(st, el, res) ==
    Bind(Update(st, el, res), LAMBDA s1 :
    IF Failed(s1) THEN s1 ELSE [s1 EXCEPT !.mounted = @ \cup {el}])

\* ------------------------------------------------------------- Reactive.createComponent
\* Reactive.bindMultiple(el, [a, b], fn): the computed, whose first run is in
\* its constructor, and the subscriber of the computed.  The closure it
\* returns disposes the computed and unsubscribes the subscriber.
BindMultiple(st) ==
    Bind(RunComputed(st, "mul"), LAMBDA s1 :
    IF Failed(s1) THEN s1
    ELSE SubscribeFn([s1 EXCEPT !.created = @ \cup {"mul"}], "mul", "mb"))

\* What the unsubs list of the component context holds: the unsubscribe
\* closure of a subscription to a (written as its subscriber: f1, f2, cb), the
\* object { unsubscribe } around such a closure (o1), the closure bindMultiple
\* returned, the cleanup of a scan (of the root with bindings, or of the
\* element render made, which has none), the closure of Component.on that
\* removes the listener, the closure of Component.computedAsync that disposes
\* the async computed.
MultiCleanupFn == "mulCleanup"
RootCleanupFn == "rootCleanup"
OffListenerFn == "offOn"
DisposeAsyncFn == "asyDispose"
TrackedFns == PlainFns \cup {ObjFn, "cb", MultiCleanupFn, RootCleanupFn,
                              ScanCleanupFn, OffListenerFn, DisposeAsyncFn}
UnsubsOf(u) == IF u \in PlainFns \cup {ObjFn, "cb"} THEN "a" ELSE ""

\* One member of unsubs called by cleanup: f() for a function,
\* f.unsubscribe() for an object.
CallTrackedFn(st, u) ==
    IF u = ScanCleanupFn THEN st
    ELSE IF u = RootCleanupFn THEN ScanCleanup(st, st.scanUnsubs)
    ELSE IF u = MultiCleanupFn THEN UnsubClosure(DisposeNode(st, "mul"), "mul", "mb")
    ELSE IF u = OffListenerFn THEN [st EXCEPT !.listeners = @ \ {OnListener}]
    ELSE IF u = DisposeAsyncFn THEN DisposeNode(st, AsyncNode)
    ELSE UnsubClosure(st, "a", u)

\* cleanup of the component context: call every tracked callback, dispose
\* every owned computed, empty both lists.
RECURSIVE CallTracked(_, _)
CallTracked(st, fs) ==
    IF fs = <<>> THEN st
    ELSE CallTracked(Note(CallTrackedFn(st, Head(fs)),
                          Ev("unsub", Head(fs), UnsubsOf(Head(fs)), 0, 0)), Tail(fs))
RECURSIVE DisposeOwned(_, _)
DisposeOwned(st, cs) ==
    IF cs = <<>> THEN st
    ELSE DisposeOwned(Note(DisposeNode(st, Head(cs)),
                           Ev("dispose", Head(cs), Head(cs), 0, 0)), Tail(cs))
CtxCleanup(st) ==
    Bind(CallTracked(st, st.ctxUnsubs), LAMBDA s1 :
    Bind(DisposeOwned(s1, s1.ctxComputed), LAMBDA s2 :
    [s2 EXCEPT !.ctxUnsubs = <<>>, !.ctxComputed = <<>>]))

\* Component.cleanup(): the onCleanup hook, then the cleanup of the context.
ComponentCleanup(st) == CtxCleanup(Hook(st, "onCleanup", 0))

\* ------------------------------------------------------------- observation of the past
\* hist.disposed   the nodes whose dispose() has returned
\* hist.atDispose  the value each disposed computed held when dispose() returned
\* hist.bChanged   the signals a set() of the application changed since the
\*                 outermost open batch was entered
\* hist.bNested    a batch was entered inside the outermost open batch
\* hist.bOther     the application subscribed, unsubscribed, created or disposed
\*                 something since the outermost open batch was entered
\* hist.cleanups   the calls of cleanup() on the component that have returned
\*                 (2 stands for two or more)
\* hist.unsubCalls, hist.disposeCalls
\*                 how often cleanup() of the component context has called the
\*                 tracked unsubscribe closure of each function and dispose()
\*                 of each owned computed (2 stands for two or more)
\* hist.ctxCalls   the calls that handed something to the component context
\* hist.scanned    "no" until Reactive.scan has returned, then "active" until
\*                 the cleanup function it returned has returned, then "cleaned"
Count(lg, k, who) == Cardinality({i \in 1..Len(lg) : lg[i].k = k /\ lg[i].who = who})
NoBatchHist(h) == [h EXCEPT !.bChanged = {}, !.bNested = FALSE, !.bOther = FALSE]

\* The argument of the latest call of f in lg, or old when lg has none.
LatestArg(lg, f, old) ==
    Bind({i \in 1..Len(lg) : lg[i].k = "call" /\ lg[i].who = f}, LAMBDA cs :
    IF cs = {} THEN old
    ELSE lg[CHOOSE i \in cs : \A j \in cs : j <= i].arg)

Op(op, sig, who, v) == [op |-> op, sig |-> sig, who |-> who, v |-> v, err |-> "none"]

\* The batch observations are kept while a batch is open and in the state its
\* outermost finally block leaves; the next call of the application drops them.
Outside(h, inBatch) == IF inBatch THEN h ELSE NoBatchHist(h)

\* The computeds whose run reached its end without an exception in lg, and
\* the computeds whose scheduler is among the wrappers of the batch queue q.
RanToEnd(lg) ==
    {c \in Computeds : \E i \in 1..Len(lg) :
        lg[i].k = "end" /\ lg[i].who = c /\ lg[i].arg.err = "none"}
Queued(q) == {q[i].f : i \in 1..Len(q)} \cap Computeds

\* The computeds whose scheduler the call op is due to run: the subscribers of
\* the signal a set() outside a flush changes, and the queue a batch flushes.
Due(op) ==
    IF op.op = "Set"
    THEN IF batchPending \/ Equals(op.sig, val[op.sig], op.v) THEN {}
         ELSE Range(subs[op.sig]) \cap Computeds
    ELSE IF op.op \in {"BatchExit", "BatchThrow"} THEN Queued(batchQueue)
    ELSE {}

\* missed after the call op that ends in st: a call that throws adds the
\* computeds that were due in it, and a run that reaches its end takes the
\* computed out.
MissedAfter(st, op) ==
    [missed EXCEPT !.set = (IF Failed(st) THEN @ \cup Due(op) ELSE @) \ RanToEnd(st.log)]

\* The program state after a call: the exception, if any, has reached the
\* application, which goes on.
Install(st, op) ==
    /\ val' = st.val
    /\ subs' = st.subs
    /\ created' = st.created
    /\ deps' = st.deps
    /\ unsubs' = st.unsubs
    /\ computing' = st.computing
    /\ sctx' = st.sctx
    /\ computeStack' = st.computeStack
    /\ activeContext' = st.activeContext
    /\ batchPending' = st.batchPending
    /\ batchQueue' = st.batchQueue
    /\ batchWrappers' = st.batchWrappers
    /\ runs' = st.runs
    /\ currentCancel' = st.currentCancel
    /\ onceCalled' = st.onceCalled
    /\ onceUnsub' = st.onceUnsub
    /\ fields' = st.fields
    /\ dom' = st.dom
    /\ mounted' = st.mounted
    /\ depsRef' = st.depsRef
    /\ scanUnsubs' = st.scanUnsubs
    /\ cleanups' = st.cleanups
    /\ listeners' = st.listeners
    /\ ctxUnsubs' = st.ctxUnsubs
    /\ ctxComputed' = st.ctxComputed
    /\ lastRead' = st.lastRead
    /\ log' = st.log
    /\ lastOp' = [op EXCEPT !.err = st.err]
    /\ lastArg' = IF lastArg.on
                  THEN [lastArg EXCEPT !.arg = [f \in PlainFns |-> LatestArg(st.log, f, @[f])]]
                  ELSE lastArg
    /\ missed' = IF missed.on THEN MissedAfter(st, op) ELSE missed

\* ------------------------------------------------------------- initial state
\* The application has created a = create(0), b = create(0) and
\* tog = create(1, (x, y) => !!x === !!y); nothing else exists yet.
InitProgram ==
    /\ val = [s \in Signals |->
                IF s = "tog" THEN 1
                ELSE IF s \in SrcSignals THEN 0
                ELSE IF s = AsyncNode
                THEN [status |-> "pending", data |-> UNDEF, error |-> ErrNull, loading |-> TRUE]
                ELSE UNDEF]
    /\ subs = [s \in Signals |-> <<>>]
    /\ created = {}
    /\ deps = [n \in Nodes |-> {}]
    /\ unsubs = [n \in Nodes |-> {}]
    /\ computing = [c \in Computeds |-> FALSE]
    /\ sctx = [c \in Computeds |-> {}]
    /\ computeStack = <<>>
    /\ activeContext = NullCtx
    /\ batchPending = FALSE
    /\ batchQueue = <<>>
    /\ batchWrappers = [f \in Subscribers |-> "none"]
    /\ runs = <<>>
    /\ currentCancel = 0
    /\ onceCalled = [w \in OnceFns |-> FALSE]
    /\ onceUnsub = [w \in OnceFns |-> FALSE]
    /\ fields = [k \in StateKeys |-> "unset"]
    /\ dom = [c \in {"app", Body} |-> IF c = Body THEN <<>> ELSE Absent]
    /\ mounted = {}
    /\ depsRef = [run |-> [c \in Computeds |-> 0], asy |-> {}]
    /\ scanUnsubs = <<>>
    /\ cleanups = <<>>
    /\ listeners = {}
    /\ ctxUnsubs = <<>>
    /\ ctxComputed = <<>>
    /\ batchDepth = 0
    /\ log = <<>>
    /\ lastOp = Op("Init", "", "", 0)
    /\ lastRead = [c \in Computeds |-> {}]
    /\ hist = [disposed |-> {}, atDispose |-> [c \in Computeds |-> UNDEF],
               bChanged |-> {}, bNested |-> FALSE, bOther |-> FALSE,
               scanned |-> "no", cleanups |-> 0,
               unsubCalls |-> [f \in TrackedFns |-> 0],
               disposeCalls |-> [c \in Nodes |-> 0],
               ctxCalls |-> 0]

\* The arguments of the calls of the plain subscribers and the computeds left
\* without their due run are recorded only in the specification that speaks
\* of them.
NoCallYet == [f \in PlainFns |-> UNDEF]
Observing(args, runsDue) ==
    /\ InitProgram
    /\ lastArg = [on |-> args, arg |-> NoCallYet]
    /\ missed = [on |-> runsDue, set |-> {}]
Init == Observing(FALSE, FALSE)
InitLastArg == Observing(TRUE, FALSE)
InitMissed == Observing(FALSE, TRUE)

\* ------------------------------------------------------------- actions
InBatch == batchDepth > 0
WithinRuns(st) == Len(st.runs) <= MaxRuns

\* signal.set(v) called by the application on a source signal.
Set(s, v) ==
    /\ \E st \in {SignalSet(State, s, v)} :
          /\ WithinRuns(st)
          /\ Install(st, Op("Set", s, "", v))
    /\ hist' = IF InBatch
               THEN [hist EXCEPT !.bChanged =
                              IF Equals(s, val[s], v) THEN @ ELSE @ \cup {s}]
               ELSE NoBatchHist(hist)
    /\ UNCHANGED batchDepth

SubscribeNoCall(s, f) ==
    /\ \E st \in {[State EXCEPT !.subs[s] = SetAdd(@, f)]} :
          Install(st, Op("Subscribe", s, f, 0))
    /\ hist' = [Outside(hist, InBatch) EXCEPT !.bOther = InBatch]
    /\ UNCHANGED batchDepth

\* signal.subscribe(f): add f, call it with the current value.
Subscribe(s, f) ==
    /\ \E st \in {Note([State EXCEPT !.subs[s] = SetAdd(@, f)],
                        Ev("call", f, s, val[s], 0))} :
          Install(st, Op("Subscribe", s, f, 0))
    /\ hist' = [Outside(hist, InBatch) EXCEPT !.bOther = InBatch]
    /\ UNCHANGED batchDepth

\* a.subscribe(fw) called by the application, once: fw is added and called.
SubscribeWriter ==
    /\ "fw" \notin Range(subs["a"])
    /\ \E st \in {SubscribeFn(State, "a", "fw")} :
          Install(st, Op("Subscribe", "a", "fw", 0))
    /\ hist' = [Outside(hist, InBatch) EXCEPT !.bOther = InBatch]
    /\ UNCHANGED batchDepth

\* a.once(g1): make the wrapper w, subscribe it (which calls it with the
\* current value), assign unsub.
Once(w) ==
    /\ ~onceUnsub[w]
    /\ \E s1 \in {[State EXCEPT !.subs["a"] = SetAdd(@, w)]} :
       \E s2 \in {CallSub(s1, w, "a")} :
       \E st \in {[s2 EXCEPT !.onceUnsub[w] = TRUE]} :
          Install(st, Op("Once", "a", w, 0))
    /\ hist' = [Outside(hist, InBatch) EXCEPT !.bOther = InBatch]
    /\ UNCHANGED batchDepth

\* The closure subscribe(f) returned, called by the application.
Unsubscribe(s, f) ==
    /\ f \in Range(subs[s])
    /\ \E st \in {UnsubClosure(State, s, f)} :
          Install(st, Op("Unsubscribe", s, f, 0))
    /\ hist' = [Outside(hist, InBatch) EXCEPT !.bOther = InBatch]
    /\ UNCHANGED batchDepth

\* Signals.computed(fn): the first run, then the object exists.  sum reads dbl,
\* which has to exist before it.
Needs(c) == IF c = "sum" THEN {"dbl"} ELSE {}
CreateComputed(c) ==
    /\ c \notin created
    /\ Needs(c) \subseteq created
    /\ \E s1 \in {RunComputed(State, c)} :
       \E st \in {IF Failed(s1) THEN s1 ELSE [s1 EXCEPT !.created = @ \cup {c}]} :
          /\ WithinRuns(st)
          /\ Install(st, Op("Create", c, c, 0))
    /\ hist' = [Outside(hist, InBatch) EXCEPT !.bOther = InBatch]
    /\ UNCHANGED batchDepth

\* c.dispose()
Dispose(n) ==
    /\ n \in created
    /\ \E st \in {DisposeNode(State, n)} :
          Install(st, Op("Dispose", n, n, 0))
    /\ hist' = [Outside(hist, InBatch) EXCEPT
                  !.disposed = @ \cup {n},
                  !.atDispose = IF n \in Computeds THEN [@ EXCEPT ![n] = val[n]] ELSE @,
                  !.bOther = InBatch]
    /\ UNCHANGED batchDepth

\* Signals.batch(fn) is entered: _batchPending = true, then fn starts.
BatchEnter ==
    /\ batchDepth < MaxDepth
    /\ batchDepth' = batchDepth + 1
    /\ \E st \in {[State EXCEPT !.batchPending = TRUE]} :
          Install(st, Op("BatchEnter", "", "", 0))
    /\ hist' = IF InBatch THEN [hist EXCEPT !.bNested = TRUE] ELSE NoBatchHist(hist)

\* fn has returned: the finally block of the innermost open Signals.batch.
BatchExit ==
    /\ InBatch
    /\ \E st \in {EffectFinally(State)} :
          /\ WithinRuns(st)
          /\ Install(st, Op("BatchExit", "", "", 0))
          /\ hist' = hist
    /\ batchDepth' = batchDepth - 1

\* fn has thrown: the finally block of the innermost open Signals.batch, then
\* the exception reaches the caller.
BatchThrow ==
    /\ InBatch
    /\ \E st \in {EffectThrows(State)} :
          /\ WithinRuns(st)
          /\ Install(st, Op("BatchThrow", "", "", 0))
          /\ hist' = hist
    /\ batchDepth' = batchDepth - 1

\* Signals.computedAsync(fn): the first run starts, the object exists.
CreateAsync ==
    /\ AsyncNode \notin created
    /\ \E st \in {[AsyncRun(State) EXCEPT !.created = @ \cup {AsyncNode}]} :
          /\ WithinRuns(st)
          /\ Install(st, Op("CreateAsync", AsyncNode, AsyncNode, 0))
    /\ hist' = [Outside(hist, InBatch) EXCEPT !.bOther = InBatch]
    /\ UNCHANGED batchDepth

\* The promise of run r settles and its continuation runs; this happens only
\* when no application code is on the stack.
Settle(r, ok) ==
    /\ ~InBatch
    /\ r \in 1..Len(runs)
    /\ ~runs[r].settled
    /\ \E st \in {Retire(SettleRun(State, r, ok), r)} :
          /\ WithinRuns(st)
          /\ Install(st, Op("Settle", AsyncNode, IF ok THEN "ok" ELSE "rejected", r))
    /\ hist' = NoBatchHist(hist)
    /\ UNCHANGED batchDepth

\* signal.get() called by the application outside any computation.
Read(s) ==
    /\ activeContext.k = "run"
    /\ s \notin runs[activeContext.r].ctx
    /\ \E st \in {Get(State, s)} :
          Install(st, Op("Read", s, "", 0))
    /\ hist' = Outside(hist, InBatch)
    /\ UNCHANGED batchDepth

\* What every call that hands something to the component context leaves in
\* the observations.
Handed(h, inBatch) ==
    [Outside(h, inBatch) EXCEPT !.bOther = inBatch, !.ctxCalls = @ + 1]
CanHand == hist.ctxCalls < MaxTracked

\* component.track(a.subscribe(f)): f is subscribed and called, its unsubscribe
\* closure is tracked.  The application does this once for a function.
Track(f) ==
    /\ CanHand
    /\ f \notin Range(subs["a"])
    /\ hist.unsubCalls[f] = 0
    /\ \E s1 \in {SubscribeFn(State, "a", f)} :
       \E st \in {[s1 EXCEPT !.ctxUnsubs = Append(@, f)]} :
          Install(st, Op("Track", "a", f, 0))
    /\ hist' = Handed(hist, InBatch)
    /\ UNCHANGED batchDepth

\* component.track({ unsubscribe: a.subscribe(o1) }): the object is tracked.
TrackObject ==
    /\ CanHand
    /\ ObjFn \notin Range(subs["a"])
    /\ hist.unsubCalls[ObjFn] = 0
    /\ \E s1 \in {SubscribeFn(State, "a", ObjFn)} :
       \E st \in {[s1 EXCEPT !.ctxUnsubs = Append(@, ObjFn)]} :
          Install(st, Op("TrackObject", "a", ObjFn, 0))
    /\ hist' = Handed(hist, InBatch)
    /\ UNCHANGED batchDepth

\* component.track(null): a falsy value is not pushed.
TrackFalsy ==
    /\ CanHand
    /\ Install(State, Op("TrackFalsy", "", "", 0))
    /\ hist' = Handed(hist, InBatch)
    /\ UNCHANGED batchDepth

\* component.bindText(el, a), and likewise bind, bindAttr, bindBoolAttr,
\* bindClass, bindStyle: Reactive's function subscribes a writer of el to the
\* signal and the unsubscribe closure it returns is tracked.
ContextBind ==
    /\ CanHand
    /\ "cb" \notin Range(subs["a"])
    /\ hist.unsubCalls["cb"] = 0
    /\ \E s1 \in {SubscribeFn(State, "a", "cb")} :
       \E st \in {[s1 EXCEPT !.ctxUnsubs = Append(@, "cb")]} :
          Install(st, Op("ContextBind", "a", "cb", 0))
    /\ hist' = Handed(hist, InBatch)
    /\ UNCHANGED batchDepth

\* component.bindMultiple(el, [a, b], fn): the closure Reactive.bindMultiple
\* returns is tracked.
ContextBindMultiple ==
    /\ CanHand
    /\ "mul" \notin created
    /\ \E s1 \in {BindMultiple(State)} :
       \E st \in {IF Failed(s1) THEN s1
                  ELSE [s1 EXCEPT !.ctxUnsubs = Append(@, MultiCleanupFn)]} :
          Install(st, Op("ContextBindMultiple", "mul", "mb", 0))
    /\ hist' = Handed(hist, InBatch)
    /\ UNCHANGED batchDepth

\* component.scan(root, { a, b }): Reactive.scan, whose cleanup is tracked.
ContextScan ==
    /\ CanHand
    /\ hist.scanned = "no"
    /\ \E s1 \in {ScanRoot(State)} :
       \E st \in {[s1 EXCEPT !.ctxUnsubs = Append(@, RootCleanupFn)]} :
          Install(st, Op("ContextScan", "", "", 0))
    /\ hist' = [Handed(hist, InBatch) EXCEPT !.scanned = "active"]
    /\ UNCHANGED batchDepth

\* Component.on(el, "click", handler): the listener is installed and the
\* closure that removes it is tracked.
ComponentOn ==
    /\ CanHand
    /\ OnListener \notin listeners
    /\ hist.unsubCalls[OffListenerFn] = 0
    /\ \E st \in {[State EXCEPT !.listeners = @ \cup {OnListener},
                                !.ctxUnsubs = Append(@, OffListenerFn)]} :
          Install(st, Op("ComponentOn", "", OnListener, 0))
    /\ hist' = Handed(hist, InBatch)
    /\ UNCHANGED batchDepth

\* component.computed(fn): Signals.computed(fn), then the computed is owned.
OwnComputed(c) ==
    /\ CanHand
    /\ c \notin created
    /\ \E st \in {ContextComputed(State, c)} :
          Install(st, Op("OwnComputed", c, c, 0))
    /\ hist' = Handed(hist, InBatch)
    /\ UNCHANGED batchDepth

\* computedAsync of the component context: Signals.computedAsync(fn), whose
\* first run starts, then the async computed is pushed onto the computed list.
OwnComputedAsync ==
    /\ CanHand
    /\ AsyncNode \notin created
    /\ \E st \in {[AsyncRun(State) EXCEPT !.created = @ \cup {AsyncNode},
                                          !.ctxComputed = Append(@, AsyncNode)]} :
          /\ WithinRuns(st)
          /\ Install(st, Op("OwnComputedAsync", AsyncNode, AsyncNode, 0))
    /\ hist' = Handed(hist, InBatch)
    /\ UNCHANGED batchDepth

\* Component.computedAsync(fn): Signals.computedAsync(fn), then the closure
\* that disposes the async computed is tracked.
ComponentComputedAsync ==
    /\ CanHand
    /\ AsyncNode \notin created
    /\ \E st \in {[AsyncRun(State) EXCEPT !.created = @ \cup {AsyncNode},
                                          !.ctxUnsubs = Append(@, DisposeAsyncFn)]} :
          /\ WithinRuns(st)
          /\ Install(st, Op("ComponentComputedAsync", AsyncNode, AsyncNode, 0))
    /\ hist' = Handed(hist, InBatch)
    /\ UNCHANGED batchDepth

\* component.cleanup() called by the application, any number of times.
Plus(n) == IF n < 2 THEN n + 1 ELSE n
DisposedBy(us, cs) ==
    Range(cs) \cup (IF MultiCleanupFn \in Range(us) THEN {"mul"} ELSE {})
              \cup (IF DisposeAsyncFn \in Range(us) THEN {AsyncNode} ELSE {})
Cleanup ==
    /\ \E st \in {ComponentCleanup(State)} :
          /\ Install(st, Op("Cleanup", "", "", 0))
          /\ hist' = [Outside(hist, InBatch) EXCEPT
                        !.cleanups = Plus(@),
                        !.unsubCalls = [f \in TrackedFns |->
                            IF Count(st.log, "unsub", f) > 0 THEN Plus(@[f]) ELSE @[f]],
                        !.disposeCalls = [c \in Nodes |->
                            IF Count(st.log, "dispose", c) > 0 THEN Plus(@[c]) ELSE @[c]],
                        !.disposed = @ \cup DisposedBy(ctxUnsubs, ctxComputed),
                        !.atDispose = [c \in Computeds |->
                            IF c \in DisposedBy(ctxUnsubs, ctxComputed)
                            THEN val[c] ELSE @[c]],
                        !.scanned = IF RootCleanupFn \in Range(ctxUnsubs)
                                    THEN "cleaned" ELSE @,
                        !.bOther = InBatch]
    /\ UNCHANGED batchDepth

\* Reactive.scan(root, { a, b }) called by the application, once.
Scan ==
    /\ hist.scanned = "no"
    /\ \E st \in {ScanRoot(State)} :
          Install(st, Op("Scan", "", "", 0))
    /\ hist' = [Outside(hist, InBatch) EXCEPT !.scanned = "active", !.bOther = InBatch]
    /\ UNCHANGED batchDepth

\* The cleanup function that scan returned, called by the application.
CleanupScan ==
    /\ hist.scanned # "no"
    /\ \E st \in {ScanCleanup(State, scanUnsubs)} :
          Install(st, Op("CleanupScan", "", "", 0))
    /\ hist' = [Outside(hist, InBatch) EXCEPT !.scanned = "cleaned", !.bOther = InBatch]
    /\ UNCHANGED batchDepth

SetAny(S) == \E s \in S, v \in Values : Set(s, v)
SetTog == \E v \in TogValues : Set("tog", v)
\* A batch that is not inside another one.
BatchEnterOuter == ~InBatch /\ BatchEnter

\* ------------------------------------------------------------- specifications
\* f1 subscribes to a and to tog, f2 to a.
SubPairs == {<<"a", "f1">>, <<"tog", "f1">>, <<"a", "f2">>}

\* Signals, plain subscribers and batches, nested too.
Next ==
    \/ SetAny({"a"})
    \/ SetTog
    \/ \E p \in SubPairs : Subscribe(p[1], p[2])
    \/ \E p \in SubPairs : Unsubscribe(p[1], p[2])
    \/ BatchEnter
    \/ BatchExit
Spec == Init /\ [][Next]_vars

\* The computed with dynamic dependencies, the signals it reads, and batches.
NextComputed ==
    \/ SetAny(SrcSignals)
    \/ CreateComputed("dyn")
    \/ Dispose("dyn")
    \/ BatchEnterOuter
    \/ BatchExit
SpecComputed == Init /\ [][NextComputed]_vars

\* A computed that reads a signal and a computed of that signal.
NextDiamond ==
    \/ SetAny({"a"})
    \/ \E c \in {"dbl", "sum"} : CreateComputed(c)
    \/ \E c \in {"dbl", "sum"} : Dispose(c)
    \/ BatchEnterOuter
    \/ BatchExit
SpecDiamond == Init /\ [][NextDiamond]_vars

\* cyc, whose compute function writes the signal it reads, and dbl.
NextReentrant ==
    \/ SetAny({"a", "b"})
    \/ \E c \in {"dbl", "cyc"} : CreateComputed(c)
    \/ \E c \in {"dbl", "cyc"} : Dispose(c)
    \/ BatchEnterOuter
    \/ BatchExit
SpecReentrant == Init /\ [][NextReentrant]_vars

\* The async computed, the signal it reads, and batches.
NextAsync ==
    \/ SetAny({"a"})
    \/ CreateAsync
    \/ Dispose(AsyncNode)
    \/ \E r \in 1..MaxRuns, ok \in BOOLEAN : Settle(r, ok)
    \/ BatchEnterOuter
    \/ BatchExit
SpecAsync == Init /\ [][NextAsync]_vars

\* The same with reads of b by the application while a run is in flight, which
\* the run's context collects.
NextAsyncReads ==
    \/ NextAsync
    \/ SetAny({"b"})
    \/ Read("b")
SpecAsyncReads == Init /\ [][NextAsyncReads]_vars

\* The async computed with reads of its own result by the application while a
\* run is in flight.
NextAsyncSelf ==
    \/ NextAsync
    \/ Read(AsyncNode)
SpecAsyncSelf == Init /\ [][NextAsyncSelf]_vars

\* The async computed next to bck, whose compute function writes the signal
\* the async computed reads: a run of the async computed starts inside the run
\* of bck.
NextAlias ==
    \/ SetAny({"a", "b"})
    \/ CreateAsync
    \/ CreateComputed("bck")
    \/ \E n \in {AsyncNode, "bck"} : Dispose(n)
    \/ \E r \in 1..MaxRuns, ok \in BOOLEAN : Settle(r, ok)
SpecAlias == Init /\ [][NextAlias]_vars

\* Plain subscribers and a computed on the same signal, subscribed in any order.
NextOrder ==
    \/ SetAny({"a"})
    \/ \E f \in PlainFns : Subscribe("a", f)
    \/ \E f \in PlainFns : Unsubscribe("a", f)
    \/ CreateComputed("dbl")
    \/ Dispose("dbl")
    \/ BatchEnterOuter
    \/ BatchExit
SpecOrder == Init /\ [][NextOrder]_vars

\* once(), a plain subscriber on the same signal, and batches, nested too.
NextOnce ==
    \/ SetAny({"a"})
    \/ Once("w1")
    \/ Unsubscribe("a", "w1")
    \/ Subscribe("a", "f1")
    \/ Unsubscribe("a", "f1")
    \/ BatchEnter
    \/ BatchExit
SpecOnce == Init /\ [][NextOnce]_vars

\* pk, which reads a through peek() and b through get().
NextPeek ==
    \/ SetAny({"a", "b"})
    \/ CreateComputed("pk")
    \/ Dispose("pk")
    \/ BatchEnterOuter
    \/ BatchExit
SpecPeek == Init /\ [][NextPeek]_vars

\* thr, whose compute function throws when a is 1, next to dbl and sum, whose
\* runs nest.
ThrowComputeds == {"dbl", "sum", "thr"}
NextThrow ==
    \/ SetAny({"a"})
    \/ \E c \in ThrowComputeds : CreateComputed(c)
    \/ \E c \in ThrowComputeds : Dispose(c)
    \/ BatchEnterOuter
    \/ BatchExit
SpecThrow == Init /\ [][NextThrow]_vars

\* The same computeds, with the computeds a throwing call left without their
\* due run recorded; thr and dbl can be disposed.
NextStale ==
    \/ SetAny({"a"})
    \/ \E c \in ThrowComputeds : CreateComputed(c)
    \/ \E c \in {"thr", "dbl"} : Dispose(c)
    \/ BatchEnterOuter
    \/ BatchExit
SpecStale == InitMissed /\ [][NextStale]_vars

\* Computeds whose compute functions write signals: cyc the one it reads, fwd
\* and bck the one the other reads; slf reads its own value.
WritingComputeds == {"cyc", "fwd", "bck", "slf"}
NextTerminate ==
    \/ SetAny({"a"})
    \/ \E c \in WritingComputeds : CreateComputed(c)
    \/ BatchEnterOuter
    \/ BatchExit
SpecTerminate == Init /\ [][NextTerminate]_vars

\* Plain subscribers, f1 on a and on tog, f2 on a only, next to fw, which
\* writes a when it is called, and thr, whose scheduler is subscribed to a;
\* a and tog are written in and outside batches.
NextLastArg ==
    \/ SetAny({"a", "tog"})
    \/ \E p \in SubPairs : Subscribe(p[1], p[2])
    \/ Unsubscribe("tog", "f1")
    \/ SubscribeWriter
    \/ CreateComputed("thr")
    \/ BatchEnterOuter
    \/ BatchExit
SpecLastArg == InitLastArg /\ [][NextLastArg]_vars

\* Batches whose function returns or throws, with thr and dbl subscribed to a
\* next to the plain subscriber f1.
BatchThrowComputeds == {"dbl", "thr"}
NextBatchThrow ==
    \/ SetAny({"a"})
    \/ \E c \in BatchThrowComputeds : CreateComputed(c)
    \/ Subscribe("a", "f1")
    \/ Unsubscribe("a", "f1")
    \/ BatchEnter
    \/ BatchExit
    \/ BatchThrow
SpecBatchThrow == Init /\ [][NextBatchThrow]_vars

\* One scan with data-text, data-html and data-model, its cleanup, and batches.
NextScan ==
    \/ SetAny({"a", "b"})
    \/ Scan
    \/ CleanupScan
    \/ BatchEnterOuter
    \/ BatchExit
SpecScan == Init /\ [][NextScan]_vars

\* A component and its context: the functions that put something on the
\* lists of the context, at most MaxTracked calls of them, cleanup, writes of
\* a and batches.
NextCleanup ==
    \/ SetAny({"a"})
    \/ \E f \in PlainFns : Track(f)
    \/ TrackObject
    \/ TrackFalsy
    \/ ContextBind
    \/ ContextBindMultiple
    \/ ContextScan
    \/ ComponentOn
    \/ OwnComputed("dbl")
    \/ Cleanup
    \/ BatchEnterOuter
    \/ BatchExit
SpecCleanup == Init /\ [][NextCleanup]_vars

\* The same for the two functions that make an async computed, with the
\* promises of its runs.
NextCleanupAsync ==
    \/ SetAny({"a"})
    \/ Track("f1")
    \/ OwnComputedAsync
    \/ ComponentComputedAsync
    \/ \E r \in 1..MaxRuns, ok \in BOOLEAN : Settle(r, ok)
    \/ Cleanup
    \/ BatchEnterOuter
    \/ BatchExit
SpecCleanupAsync == Init /\ [][NextCleanupAsync]_vars

\* The component: component.mountTo(id) and component.appendTo(id) called by
\* the application, which also puts the container with id "app" into the
\* document and takes it out.
WithinOwned(st) == Len(st.ctxUnsubs) + Len(st.ctxComputed) <= MaxOwned
CallMountTo(id, keys, tpl) ==
    /\ \E r \in {MountTo(State, id, keys, tpl)} :
          /\ WithinOwned(r.st)
          /\ Install(r.st, Op("MountTo", id, "", r.ret))
    /\ hist' = Outside(hist, InBatch)
    /\ UNCHANGED batchDepth
CallAppendTo(id, keys, tpl) ==
    /\ \A c \in DOMAIN dom : dom[c] # Absent => Len(dom[c]) < MaxChildren
    /\ \E r \in {AppendTo(State, id, keys, tpl)} :
          /\ WithinOwned(r.st)
          /\ Install(r.st, Op("AppendTo", id, "", r.ret))
    /\ hist' = Outside(hist, InBatch)
    /\ UNCHANGED batchDepth
AddContainer ==
    /\ dom["app"] = Absent
    /\ Install([State EXCEPT !.dom["app"] = <<>>], Op("AddContainer", "app", "", 0))
    /\ hist' = Outside(hist, InBatch)
    /\ UNCHANGED batchDepth
RemoveContainer ==
    /\ dom["app"] # Absent
    /\ Install([State EXCEPT !.dom["app"] = Absent, !.mounted = @ \ {"app"}],
               Op("RemoveContainer", "app", "", 0))
    /\ hist' = Outside(hist, InBatch)
    /\ UNCHANGED batchDepth

\* Reactive.mount(el, fn) on an element of the document, and update() of the
\* object a mount on such an element returned.
CallMount(el, res) ==
    /\ dom[el] # Absent
    /\ Install(ReactiveMount(State, el, res), Op("Mount", el, "", res.n))
    /\ hist' = Outside(hist, InBatch)
    /\ UNCHANGED batchDepth
CallUpdate(el, res) ==
    /\ el \in mounted
    /\ Install(Update(State, el, res), Op("Update", el, "", res.n))
    /\ hist' = Outside(hist, InBatch)
    /\ UNCHANGED batchDepth
NextComponent ==
    \/ \E id \in ContainerIds, keys \in KeySets, tpl \in TemplateResults :
          CallMountTo(id, keys, tpl)
    \/ \E id \in ContainerIds, keys \in KeySets, tpl \in TemplateResults :
          CallAppendTo(id, keys, tpl)
    \/ AddContainer
    \/ RemoveContainer
SpecComponent == Init /\ [][NextComponent]_vars

\* Reactive.mount and update() on the container and on document.body, next to
\* a component without state that is mounted on them.
NextMount ==
    \/ \E el \in {"app", Body}, res \in MountResults : CallMount(el, res)
    \/ \E el \in {"app", Body}, res \in MountResults : CallUpdate(el, res)
    \/ \E id \in ContainerIds, tpl \in TemplateResults : CallMountTo(id, {}, tpl)
    \/ \E id \in ContainerIds, tpl \in TemplateResults : CallAppendTo(id, {}, tpl)
    \/ AddContainer
    \/ RemoveContainer
SpecMount == Init /\ [][NextMount]_vars

\* ------------------------------------------------------------- properties
Calls(f) == {i \in 1..Len(log) : log[i].k = "call" /\ log[i].who = f}
AnyCall == \E i \in 1..Len(log) : log[i].k = "call"
RunsOf(c) == Count(log, "run", c)
\* The signals on whose subscriber Set the scheduler of node n is.
SubscribedTo(n) == {s \in Signals : n \in Range(subs[s])}

\* C1: in a single, non-nested batch no subscriber is invoked while the batch
\* function runs, and at the flush every function subscribed to a signal the
\* batch changed (and to no other signal it changed) is invoked exactly once,
\* with the value that signal has at the flush.
C1_BatchNotifiesOnceWithLast ==
    /\ (lastOp.op = "Set" /\ batchDepth > 0 /\ ~hist.bNested) => ~AnyCall
    /\ (lastOp.op = "BatchExit" /\ batchDepth = 0 /\ ~hist.bNested /\ ~hist.bOther) =>
          \A s \in hist.bChanged : \A f \in PlainFns :
              (f \in Range(subs[s]) /\ {x \in hist.bChanged : f \in Range(subs[x])} = {s}) =>
                  /\ Cardinality(Calls(f)) = 1
                  /\ \A i \in Calls(f) : log[i].arg = val[s]

\* C5: a function is only ever invoked with the value of a signal it is
\* subscribed to at that moment: once its unsubscribe closure has been called
\* it is not invoked for that signal again.
C5_NoCallAfterUnsubscribe ==
    \A i \in 1..Len(log) :
        log[i].k = "call" => log[i].who \in Range(subs[log[i].sig])

\* C6: a set(v) whose equals(current, v) holds invokes no subscriber, enqueues
\* nothing and leaves the stored value as it was, inside and outside a batch.
C6_EqualSetIsNoOp ==
    [][\A s \in SrcSignals : \A v \in TogValues :
          (lastOp'.op = "Set" /\ lastOp'.sig = s /\ lastOp'.v = v /\ Equals(s, val[s], v)) =>
              /\ val' = val
              /\ log' = <<>>
              /\ batchQueue' = batchQueue
              /\ batchWrappers' = batchWrappers]_vars
\* tog holds 1, set(2) was called on it while f1 was subscribed, and it still holds 1.
C6_Witness ==
    /\ lastOp.op = "Set" /\ lastOp.sig = "tog" /\ lastOp.v = 2
    /\ val["tog"] = 1
    /\ "f1" \in Range(subs["tog"])
    /\ log = <<>>

\* C8: while a batch is open, also after a batch nested in it has returned,
\* no write and no inner finally block delivers a notification.
C8_NestedBatchTransparent ==
    (batchDepth > 0 /\ lastOp.op \in {"Set", "BatchExit"}) => ~AnyCall

\* C2: after every run of a computed its scheduler is subscribed to exactly
\* the signals the run read (to none after dispose); a write outside a batch
\* makes it run iff the write changes a signal of that set, and a flush makes
\* it run iff the batch changed a signal of that set.
C2_SubscribedIsRead == \A c \in created \cap Computeds : SubscribedTo(c) = lastRead[c]
C2_DynamicDependencies ==
    [][/\ C2_SubscribedIsRead'
       /\ \A c \in created \cap Computeds :
            /\ (lastOp'.op = "Set" /\ ~batchPending) =>
                  RunsOf(c)' = IF lastOp'.sig \in lastRead[c]
                                  /\ ~Equals(lastOp'.sig, val[lastOp'.sig], lastOp'.v)
                               THEN 1 ELSE 0
            /\ (lastOp'.op = "BatchExit" /\ ~hist.bOther) =>
                  RunsOf(c)' = IF hist.bChanged \cap lastRead[c] # {} THEN 1 ELSE 0]_vars

\* C4: after dispose() the compute function does not run and the value stays
\* the one held at dispose time.
C4_DisposedNeverRuns ==
    \A c \in hist.disposed \cap Computeds :
        /\ RunsOf(c) = 0
        /\ val[c] = hist.atDispose[c]

\* C9: the flush of a batch runs each computed at most once.
C9_OneRunPerBatch ==
    lastOp.op = "BatchExit" => \A c \in Computeds : RunsOf(c) <= 1

\* C7: a run triggered while the same computed is being evaluated throws the
\* circular dependency error, which reaches the caller.
C7_ReentryThrows ==
    \A i \in 1..Len(log) :
        log[i].k \in {"skip", "cycle"} => (log[i].k = "cycle" /\ lastOp.err = CycleError)

\* C3: a resolved or error state is published only by the run started last.
C3_OnlyLatestPublishes ==
    \A i \in 1..Len(log) :
        (log[i].k = "publish" /\ log[i].arg.status \in {"resolved", "error"}) =>
            log[i].r = Len(runs)
\* The run started last has published its result while an earlier run has not
\* settled yet.
C3_Witness ==
    /\ lastOp.op = "Settle"
    /\ \E i \in 1..Len(log) : log[i].k = "publish" /\ log[i].r = Len(runs)
    /\ val[AsyncNode].status = "resolved"
    /\ \E r \in 1..Len(runs) : r < Len(runs) /\ ~runs[r].settled

\* C10: once every run has settled (and the last one did not reject), the
\* published state is resolved with the data derived from the current value of
\* the signal the function reads.
C10_SettlesOnFinalValue ==
    (/\ AsyncNode \in created
     /\ AsyncNode \notin hist.disposed
     /\ \A r \in 1..Len(runs) : runs[r].settled
     /\ batchDepth = 0
     /\ val[AsyncNode].status # "error") =>
        /\ val[AsyncNode].status = "resolved"
        /\ val[AsyncNode].data = val["a"]

\* The publications of the async computed in a log, and the state the i-th
\* entry of the log replaced: the one published just before it in the same
\* call, or the state the call found.
Publications(lg) == {i \in 1..Len(lg) : lg[i].k = "publish"}
Replaced(lg, i, before) ==
    IF \E j \in Publications(lg) : j < i
    THEN lg[CHOOSE j \in Publications(lg) : j < i /\ \A h \in Publications(lg) : h < i => h <= j].arg
    ELSE before

\* C11: a pending and an error publication carry the data of the state they
\* replace (only a resolved publication changes data), and a resolved or
\* pending publication carries error = null.
C11_DataChangesOnlyOnResolve ==
    [][\A i \in Publications(log') :
          /\ log'[i].arg.status # "resolved" =>
                log'[i].arg.data = Replaced(log', i, val[AsyncNode]).data
          /\ log'[i].arg.status \in {"resolved", "pending"} =>
                log'[i].arg.error = ErrNull]_vars
\* A run rejected after an earlier one had resolved: the error state keeps
\* the resolved data.
C11_Witness ==
    /\ lastOp.op = "Settle" /\ lastOp.who = "rejected"
    /\ val[AsyncNode].status = "error"
    /\ val[AsyncNode].error = AsyncError
    /\ val[AsyncNode].data \in Values

\* C12: once dispose() of the async computed has returned, no run is started
\* and nothing is published any more.
C12_DisposedAsyncIsInert ==
    AsyncNode \in hist.disposed =>
        \A i \in 1..Len(log) : log[i].k \notin {"start", "publish"}

\* C13: the rejection of a run that was not cancelled is published as the
\* state error, with that error and loading false, and no call of the
\* application (computedAsync, set, batch) ends with an exception through it.
C13_RejectionIsPublished ==
    [][/\ lastOp'.err = "none"
       /\ (lastOp'.op = "Settle" /\ lastOp'.who = "rejected" /\ ~runs[lastOp'.v].cancelled) =>
             /\ val'[AsyncNode].status = "error"
             /\ val'[AsyncNode].error = AsyncError
             /\ val'[AsyncNode].loading = FALSE
             /\ \E i \in Publications(log') : log'[i].arg = val'[AsyncNode]]_vars
\* The first run, not cancelled, rejected: the error state is published and
\* no data was ever resolved.
C13_Witness ==
    /\ lastOp.op = "Settle" /\ lastOp.who = "rejected" /\ lastOp.err = "none"
    /\ val[AsyncNode] = ErrorState([data |-> UNDEF], AsyncError)

\* C14: when set() of a changing write outside a batch to a signal the async
\* computed is subscribed to returns, the published state is pending with
\* loading true and the data of the state before the write.
C14_WritePublishesPending ==
    [][(/\ lastOp'.op = "Set"
        /\ batchDepth = 0
        /\ AsyncNode \in Range(subs[lastOp'.sig])
        /\ ~Equals(lastOp'.sig, val[lastOp'.sig], lastOp'.v)) =>
            /\ val'[AsyncNode].status = "pending"
            /\ val'[AsyncNode].loading = TRUE
            /\ val'[AsyncNode].data = val[AsyncNode].data]_vars
\* A write outside a batch started a run: the state is pending and still has
\* the data an earlier run resolved.
C14_Witness ==
    /\ lastOp.op = "Set" /\ batchDepth = 0
    /\ \E i \in 1..Len(log) : log[i].k = "start"
    /\ val[AsyncNode].status = "pending"
    /\ val[AsyncNode].loading = TRUE
    /\ val[AsyncNode].data \in Values

\* C15: subscribe(fn) calls fn exactly once, with the current value, and fn is
\* in the subscriber Set when it returns; subscribeInternal (used by a
\* computed for its scheduler) adds the scheduler and does not call it: the
\* creation of a computed runs it once and queues nothing.
C15_SubscribeCallsOnce ==
    [][/\ lastOp'.op = "Subscribe" =>
             /\ log' = <<Ev("call", lastOp'.who, lastOp'.sig, val[lastOp'.sig], 0)>>
             /\ lastOp'.who \in Range(subs'[lastOp'.sig])
             /\ val' = val
       /\ \A c \in Computeds : (lastOp'.op = "Create" /\ lastOp'.who = c) =>
             /\ SubscribedTo(c)' = lastRead'[c]
             /\ lastRead'[c] # {}
             /\ Count(log', "run", c) = 1
             /\ Count(log', "skip", c) = 0
             /\ batchQueue' = batchQueue]_vars
\* f2 has just subscribed to a, which holds 1 and already has the scheduler
\* of dbl, added by subscribeInternal: f2 was called with 1.
C15_Witness ==
    /\ lastOp.op = "Subscribe" /\ lastOp.who = "f2"
    /\ val["a"] = 1
    /\ log = <<Ev("call", "f2", "a", 1, 0)>>
    /\ subs["a"] = <<"dbl", "f2">>

\* C16: the callback given to once() is called exactly once, by once()
\* itself: no write, batch or flush that follows calls it again.
C16_OnceCallsOnce ==
    /\ lastOp.op = "Once" => Cardinality(Calls("g1")) = 1
    /\ lastOp.op # "Once" => Calls("g1") = {}
\* A write outside a batch has notified f1, subscribed after the wrapper of
\* once(), which is still in the subscriber Set and stayed silent.
C16_Witness ==
    /\ lastOp.op = "Set" /\ batchDepth = 0
    /\ onceCalled["w1"]
    /\ subs["a"] = <<"w1", "f1">>
    /\ Calls("f1") # {}
    /\ Calls("g1") = {}

\* C17: peek() returns the current value and registers no dependency: every
\* run of pk returns a + b for the current a, pk is subscribed to b only, and
\* a write of a, in a batch or not, neither runs pk nor changes its value.
C17_PeekDoesNotTrack ==
    []["pk" \in created' =>
          /\ RunsOf("pk")' > 0 => val'["pk"] = val'["a"] + val'["b"]
          /\ "pk" \notin hist'.disposed => SubscribedTo("pk")' = {"b"}
          /\ "pk" \notin Range(subs'["a"])
          /\ (lastOp'.op = "Set" /\ lastOp'.sig = "a") =>
                /\ RunsOf("pk")' = 0
                /\ val'["pk"] = val["pk"]
          /\ (lastOp'.op = "BatchExit" /\ "b" \notin hist.bChanged /\ ~hist.bOther) =>
                /\ RunsOf("pk")' = 0
                /\ val'["pk"] = val["pk"]]_vars
\* a was written after pk was computed: pk did not run and holds the sum for
\* the old a.
C17_Witness ==
    /\ "pk" \in created /\ "pk" \notin hist.disposed
    /\ lastOp.op = "Set" /\ lastOp.sig = "a"
    /\ \E i \in 1..Len(log) : log[i].k = "write" /\ log[i].sig = "a"
    /\ RunsOf("pk") = 0
    /\ val["pk"] # val["a"] + val["b"]

\* The subscribers a call invoked, in the order of their invocation: a plain
\* function by its call, the scheduler of a computed by the run it started.
Invoked(lg) ==
    LET sel == SelectSeq(lg, LAMBDA e : e.k \in {"call", "run"})
    IN [i \in 1..Len(sel) |-> sel[i].who]

\* C18: a new subscriber is placed after those already subscribed, and a
\* changing set() outside a batch has invoked every subscriber, in that
\* order, when it returns.
C18_NotifiesInSubscriptionOrder ==
    [][/\ \A f \in PlainFns : (lastOp'.op = "Subscribe" /\ lastOp'.who = f) =>
             subs'["a"] = IF f \in Range(subs["a"]) THEN subs["a"] ELSE Append(subs["a"], f)
       /\ lastOp'.op = "Create" => subs'["a"] = Append(subs["a"], "dbl")
       /\ (lastOp'.op = "Set" /\ batchDepth = 0 /\ val'["a"] # val["a"]) =>
             /\ Invoked(log') = subs["a"]
             /\ subs'["a"] = subs["a"]]_vars
\* A write outside a batch invoked the three subscribers of a: f2, dbl and f1,
\* subscribed in that order.
C18_Witness ==
    /\ lastOp.op = "Set" /\ batchDepth = 0
    /\ subs["a"] = <<"f2", "dbl", "f1">>
    /\ Invoked(log) = <<"f2", "dbl", "f1">>

\* The hooks of the component called by the last call, in the order of their
\* calls, and what the hook named h was called with or found.
HookEvents(lg) == SelectSeq(lg, LAMBDA e : e.k = "hook")
HookNames(lg) == [i \in 1..Len(HookEvents(lg)) |-> HookEvents(lg)[i].who]
HookArg(lg, h) == (CHOOSE e \in Range(HookEvents(lg)) : e.who = h).arg
LifecycleOrder == <<"state", "init", "template", "mount">>
\* The container a call op(id) of the application looks up is in the document.
ContainerExists(op, id) ==
    \/ op = "AppendTo" /\ id = "body"
    \/ id = "app" /\ dom["app"] # Absent
MountCall(op) == op \in {"MountTo", "AppendTo"}

\* C19 as stated: mountTo and appendTo on an existing container call the hooks
\* state, init, template, mount once each in this order, and when init runs
\* every key of the state object holds a signal.
C19_EveryKeyIsASignal ==
    [][(MountCall(lastOp'.op) /\ ContainerExists(lastOp'.op, lastOp'.sig)) =>
         /\ HookNames(log') = LifecycleOrder
         /\ \A k \in HookArg(log', "state") :
               HookArg(log', "init")[k] \in {"signal", "computed"}]_vars

\* C19, amended: mountTo and appendTo on an existing container call the hooks
\* state, init, template, mount once each in this order, and when init runs
\* every key of the state object has been assigned: a computed for a
\* function, the object itself for an object that holds signals, and a signal
\* for everything else.
C19_LifecycleOrder ==
    [][(MountCall(lastOp'.op) /\ ContainerExists(lastOp'.op, lastOp'.sig)) =>
         /\ HookNames(log') = LifecycleOrder
         /\ \A k \in HookArg(log', "state") :
               HookArg(log', "init")[k] =
                  (IF KeyKind[k] = "function" THEN "computed"
                   ELSE IF KeyKind[k] = "group" THEN "group"
                   ELSE "signal")]_vars
C19_Witness ==
    /\ lastOp.op = "MountTo" /\ lastOp.v = "el"
    /\ HookNames(log) = LifecycleOrder
    /\ HookArg(log, "state") = StateKeys
    /\ HookArg(log, "init").count = "signal"
    /\ HookArg(log, "init").form = "group"
    /\ HookArg(log, "init").twice = "computed"
    /\ ctxComputed = <<"twice">> /\ val["twice"] = 2
    /\ ctxUnsubs = <<ScanCleanupFn>>
    /\ dom["app"] = <<"el">>

\* C20: mountTo and appendTo called with the id of a container that is not in
\* the document return null, throw nothing, call none of the hooks state,
\* init, template, mount, and leave the state of the component, of the
\* document and of the signals as it was.
C20_MissingContainerReturnsNull ==
    [][(MountCall(lastOp'.op) /\ ~ContainerExists(lastOp'.op, lastOp'.sig)) =>
         /\ lastOp'.v = "null"
         /\ lastOp'.err = "none"
         /\ HookEvents(log') = <<>>
         /\ UNCHANGED progVars]_vars
C20_Witness ==
    /\ lastOp.op = "AppendTo" /\ lastOp.sig = "app" /\ lastOp.v = "null"
    /\ dom["app"] = Absent
    /\ HookEvents(log) = <<>>
    /\ \E i \in 1..Len(log) : log[i].k = "console"
    /\ fields["count"] = "signal"

\* What the last call wrote to the DOM.
DomWrites(lg) == {i \in 1..Len(lg) : lg[i].k = "dom"}

\* C21: once the cleanup function returned by scan has been called, no event
\* listener installed by the scan is left on an element, and a set() made
\* after that on a signal of the scope writes nothing to the DOM.
C21_CleanupStopsScan ==
    [][/\ hist'.scanned = "cleaned" => listeners' = {}
       /\ (hist.scanned = "cleaned" /\ lastOp'.op = "Set" /\ ~InBatch) =>
             DomWrites(log') = {}]_vars

\* The subscribers and nodes a tracked callback stops, and whether one of
\* them was called, wrote to the document, ran or started in lg.
Stops(u) ==
    IF u \in PlainFns \cup {ObjFn, "cb"} THEN {u}
    ELSE IF u = MultiCleanupFn THEN {"mul", "mb"}
    ELSE IF u = RootCleanupFn THEN {"tx", "ht", "omd", "nmd"}
    ELSE IF u = DisposeAsyncFn THEN {AsyncNode}
    ELSE {}
Fired(lg, ws) ==
    \E i \in 1..Len(lg) : lg[i].who \in ws /\ lg[i].k \in {"call", "dom", "run", "start"}

\* C22: over any number of cleanup() calls every tracked cleanup callback is
\* called exactly once and every owned computed is disposed exactly once, the
\* first cleanup() after they were added emptying the lists; after that a
\* set() calls none of the functions whose subscription was tracked and runs
\* none of the computeds that were owned; a cleanup() with nothing tracked
\* calls the onCleanup hook and nothing else.
C22_CleanupOnce ==
    [][/\ \A f \in TrackedFns : hist'.unsubCalls[f] <= 1
       /\ \A c \in Nodes : hist'.disposeCalls[c] <= 1
       /\ lastOp'.op = "Cleanup" =>
             /\ ctxUnsubs' = <<>> /\ ctxComputed' = <<>>
             /\ \A f \in Range(ctxUnsubs) : hist'.unsubCalls[f] = 1
             /\ \A c \in Range(ctxComputed) : hist'.disposeCalls[c] = 1
             /\ (ctxUnsubs = <<>> /\ ctxComputed = <<>>) =>
                   log' = <<Ev("hook", "onCleanup", "", 0, 0)>>
       /\ (lastOp'.op = "Set" /\ ~InBatch) =>
             /\ \A f \in TrackedFns :
                   hist.unsubCalls[f] = 1 => ~Fired(log', Stops(f))
             /\ \A c \in Nodes :
                   hist.disposeCalls[c] = 1 => ~Fired(log', {c})]_vars

\* The runs of the async computed that have not settled, and those of them
\* whose token is not cancelled.
Unsettled == {r \in 1..Len(runs) : ~runs[r].settled}
Live == {r \in Unsettled : ~runs[r].cancelled}

\* C23: at every moment at most one run that has not settled has a token that
\* is not cancelled, and it is the run started last: a run that starts has
\* cancelled the token of the run before it.
C23_OneLiveToken ==
    /\ Cardinality(Live) <= 1
    /\ \A r \in Live : r = Len(runs) /\ currentCancel = r
C23_Witness ==
    /\ Cardinality(Unsettled) >= 2
    /\ Live = {Len(runs)}
    /\ \E i \in 1..Len(log) : log[i].k = "start"

\* C24: when every run of the async computed that was started has settled and
\* no computed is being evaluated, _activeContext is null, the value it had
\* before the first run started.
C24_ContextRestored ==
    (Unsettled = {} /\ computeStack = <<>>) => activeContext = NullCtx

\* The signals whose get() the function of the async computed calls.
AsyncReads == {"a"}

\* C25: the async computed is wired to no signal but those whose get() its own
\* function called; a get() called by other code while a run is suspended
\* does not become a dependency.
C25_OnlyOwnReadsAreWired ==
    /\ deps[AsyncNode] \subseteq AsyncReads
    /\ SubscribedTo(AsyncNode) \subseteq AsyncReads

\* C26: when a run whose token is cancelled settles, resolved or rejected, the
\* published state of the async computed, its deps and its subscriptions to
\* signals are left as they were, and nothing is published.
C26_CancelledRunChangesNothing ==
    [][\A r \in 1..Len(runs) :
          (lastOp'.op = "Settle" /\ lastOp'.v = r /\ runs[r].cancelled) =>
              /\ val' = val
              /\ deps' = deps
              /\ unsubs' = unsubs
              /\ subs' = subs
              /\ \A i \in 1..Len(log') : log'[i].k \notin {"publish", "write"}]_vars
C26_Witness ==
    /\ lastOp.op = "Settle" /\ lastOp.who = "rejected"
    /\ \E i \in 1..Len(log) : log[i].k = "discard" /\ log[i].r = lastOp.v
    /\ deps[AsyncNode] = {"a"}
    /\ val[AsyncNode].status = "pending" /\ val[AsyncNode].data # UNDEF

\* C27: in the flush of a batch every call of a subscriber function passes the
\* current value of a signal that was written in that batch.
C27_FlushPassesWrittenSignal ==
    (lastOp.op = "BatchExit" /\ batchDepth = 0 /\ ~hist.bNested) =>
        \A i \in 1..Len(log) :
            (log[i].k = "call" /\ log[i].who \in PlainFns) =>
                /\ log[i].sig \in hist.bChanged
                /\ log[i].arg = val[log[i].sig]

\* The entries of log at which a run of a computed started and ended.
RunStarts(lg) == {i \in 1..Len(lg) : lg[i].k = "run"}
RunEnds(lg) == {i \in 1..Len(lg) : lg[i].k = "end"}
NoDuplicates(q) == Cardinality(Range(q)) = Len(q)

\* C28: no computed is twice in _computeStack, neither between two calls of
\* the application nor at the moment a run has pushed itself, also when the
\* compute function writes a signal the computed depends on.
C28_NoComputedTwiceOnStack ==
    /\ NoDuplicates(computeStack)
    /\ \A i \in RunStarts(log) : NoDuplicates(log[i].arg.stack)
C28_Witness ==
    \E i, j \in 1..Len(log) :
        /\ i < j
        /\ log[i].k = "run" /\ log[i].who = "cyc" /\ log[i].arg.stack = <<"cyc">>
        /\ log[j].k = "skip" /\ log[j].who = "cyc"

\* The entry at which the run that ends at entry j of lg started: the last
\* start of the same computed before j.
StartOf(lg, j) ==
    CHOOSE i \in RunStarts(lg) :
        /\ i < j /\ lg[i].who = lg[j].who
        /\ \A h \in RunStarts(lg) : (h < j /\ lg[h].who = lg[j].who) => h <= i

\* C29: every run of a computed that starts also ends, with or without an
\* exception, and when it has ended _computeStack and _activeContext are what
\* they were when it started; between two calls of the application the stack
\* is empty and the context null.
C29_RunRestoresStackAndContext ==
    /\ computeStack = <<>> /\ activeContext = NullCtx
    /\ \A c \in Computeds : Count(log, "run", c) = Count(log, "end", c)
    /\ \A j \in RunEnds(log) :
          /\ \E i \in RunStarts(log) : i < j /\ log[i].who = log[j].who
          /\ log[j].arg.stack = log[StartOf(log, j)].arg.prevStack
          /\ log[j].arg.ctx = log[StartOf(log, j)].arg.prevCtx
C29_Witness ==
    /\ \E j \in RunEnds(log) : log[j].who = "thr" /\ log[j].arg.err = ComputeError
    /\ \E i \in RunStarts(log) : log[i].arg.stack = <<"dbl", "sum">>
    /\ lastOp.err = ComputeError

\* A run of computed c in lg ended with the exception of its compute function.
FailedRun(lg, c) ==
    \E j \in RunEnds(lg) : lg[j].who = c /\ lg[j].arg.err = ComputeError

\* C30: when the compute function of thr throws during a recompute, the value
\* of thr, its deps and its subscriptions to signals are what they were
\* before, and a later set() that changes one of its deps runs it again.
C30_FailedRecomputeKeepsWiring ==
    [][/\ ("thr" \in created /\ FailedRun(log', "thr")) =>
             /\ val'["thr"] = val["thr"]
             /\ deps'["thr"] = deps["thr"]
             /\ unsubs'["thr"] = unsubs["thr"]
             /\ SubscribedTo("thr")' = SubscribedTo("thr")
       /\ \A s \in deps["thr"] :
             (lastOp'.op = "Set" /\ lastOp'.sig = s /\ val'[s] # val[s] /\ ~InBatch) =>
                 Count(log', "run", "thr") = 1]_vars
C30_Witness ==
    /\ lastOp.op = "Set" /\ lastOp.err = ComputeError
    /\ "thr" \in created /\ FailedRun(log, "thr")
    /\ val["a"] = 1 /\ val["thr"] = 0
    /\ deps["thr"] = {"a"} /\ SubscribedTo("thr") = {"a"}

\* C31: the exception of a compute function reaches the caller of the
\* operation that triggered the run: Signals.computed() on the first
\* evaluation, which then returns no computed, and set() or batch() on a
\* recompute, the written signal keeping its new value.
C31_ComputeErrorPropagates ==
    [][(val'["a"] = 1 /\ \E j \in RunStarts(log') : log'[j].who = "thr") =>
          /\ lastOp'.op \in {"Create", "Set", "BatchExit"}
          /\ lastOp'.err = ComputeError
          /\ lastOp'.op = "Create" => (lastOp'.who = "thr" /\ "thr" \notin created')
          /\ lastOp'.op = "Set" => val'[lastOp'.sig] = lastOp'.v
          /\ lastOp'.op = "BatchExit" => val'["a"] = val["a"]]_vars
C31_Witness ==
    /\ lastOp.op = "BatchExit" /\ lastOp.err = ComputeError
    /\ FailedRun(log, "thr")
    /\ "thr" \in created /\ val["a"] = 1 /\ val["thr"] = 0

\* The queue holds the scheduler of thr and something behind it.
ThrowsBeforeLast(q) ==
    \E i \in 1..Len(q) : q[i].f = "thr" /\ i < Len(q)

\* C32: when the scheduler of thr throws during the flush of a batch, the
\* flush ends with that throw: nothing queued behind it is called, the queue
\* is already empty so that no later flush calls it either, and the exception
\* reaches the caller of batch().
C32_ThrowDropsRestOfQueue ==
    [][(lastOp'.op = "BatchExit" /\ val["a"] = 1 /\ ThrowsBeforeLast(batchQueue)) =>
          /\ lastOp'.err = ComputeError
          /\ log' # <<>>
          /\ log'[Len(log')].k = "end" /\ log'[Len(log')].who = "thr"
          /\ Cardinality({j \in RunStarts(log') : log'[j].who = "thr"}) = 1
          /\ batchQueue' = <<>>
          /\ ~batchPending']_vars
C32_Witness ==
    /\ lastOp.op = "BatchExit" /\ lastOp.err = ComputeError
    /\ subs["a"] = <<"thr", "dbl">>
    /\ val["a"] = 1 /\ val["dbl"] = 0
    /\ \A j \in 1..Len(log) : log[j].who # "dbl"
    /\ batchQueue = <<>>

\* How often the function behind a queue entry was called in the last call of
\* the application: a plain subscriber, or the run behind a scheduler.
Flushed(lg, e) ==
    Cardinality({j \in 1..Len(lg) : lg[j].k \in {"call", "run"} /\ lg[j].who = e.f})
AllFlushedOnce(lg, q) == \A i \in 1..Len(q) : Flushed(lg, q[i]) = 1
ThrowsInFlush(q) == val["a"] = 1 /\ \E i \in 1..Len(q) : q[i].f = "thr"

\* C33 as stated: when the function of a batch throws, the flag is false
\* afterwards, every queued notification has been flushed exactly once and
\* the exception of the function reaches the caller of batch().
C33_AsStated ==
    [][lastOp'.op = "BatchThrow" =>
          /\ ~batchPending'
          /\ AllFlushedOnce(log', batchQueue)
          /\ lastOp'.err = BatchFnError]_vars

\* C33: when the function of a batch throws, the flag is false and the queue
\* empty afterwards; if no flushed callback throws, every queued notification
\* has been flushed exactly once and the exception of the function reaches
\* the caller; if the scheduler of thr throws in the flush, the exception of
\* the compute function reaches the caller in its place.
C33_ThrowingBatchStillFlushes ==
    [][lastOp'.op = "BatchThrow" =>
          /\ ~batchPending'
          /\ batchQueue' = <<>>
          /\ lastOp'.err \in {BatchFnError, ComputeError}
          /\ ~ThrowsInFlush(batchQueue) =>
                 /\ AllFlushedOnce(log', batchQueue)
                 /\ lastOp'.err = BatchFnError
          /\ ThrowsInFlush(batchQueue) => lastOp'.err = ComputeError]_vars
C33_Witness ==
    /\ lastOp.op = "BatchThrow" /\ lastOp.err = BatchFnError
    /\ Calls("f1") # {}
    /\ \E j \in RunStarts(log) : log[j].who = "dbl"
    /\ ~batchPending /\ batchQueue = <<>>

\* C34: when once() has returned, the wrapper it subscribed is not in the
\* subscriber Set of the signal any more.
C34_OnceUnsubscribes ==
    lastOp.op = "Once" => "w1" \notin Range(subs["a"])

\* The program state at the start of the try block of a run of c.
Busy(c) ==
    [State EXCEPT !.computing[c] = TRUE, !.computeStack = Append(@, c),
                  !.activeContext = SyncCtx(c), !.log = <<>>]
Skips(lg, c) == {j \in 1..Len(lg) : lg[j].k = "skip" /\ lg[j].who = c}

\* C35: run() of a computed called while that computed is computing returns
\* at once: the program state is what it was (value, deps, _computeStack,
\* _activeContext), nothing is thrown, and the trigger starts no second run
\* inside the run it arrived in.
C35_BusyTriggerIsNoOp ==
    [][/\ \A c \in {"cyc", "dbl"} :
             c \in created =>
                \E r \in {RunComputed(Busy(c), c)} :
                   /\ r.log = <<Ev("skip", c, c, 0, 0)>>
                   /\ [r EXCEPT !.log = <<>>] = Busy(c)
       /\ Skips(log', "cyc") # {} =>
             /\ lastOp'.err = "none"
             /\ \A j \in Skips(log', "cyc") :
                   \E i \in RunStarts(log') :
                      /\ i < j /\ log'[i].who = "cyc"
                      /\ \A h \in (i + 1)..j : ~(log'[h].who = "cyc" /\ log'[h].k \in {"run", "end"})
                      /\ \E e \in RunEnds(log') :
                            /\ j < e /\ log'[e].who = "cyc"
                            /\ \A h \in (j + 1)..(e - 1) :
                                  ~(log'[h].who = "cyc" /\ log'[h].k \in {"run", "end"})
                            /\ log'[e].arg.stack = log'[i].arg.prevStack
                            /\ log'[e].arg.ctx = log'[i].arg.prevCtx]_vars
C35_Witness ==
    /\ lastOp.op = "Set" /\ lastOp.sig = "b" /\ lastOp.err = "none"
    /\ Skips(log, "cyc") # {}
    /\ "cyc" \in created /\ val["cyc"] = 0 /\ val["b"] = 1
    /\ deps["cyc"] = {"b"}

\* The deepest _computeStack any run of the last call started with.
Depth(lg) ==
    IF RunStarts(lg) = {} THEN 0
    ELSE CHOOSE d \in {Len(lg[i].arg.stack) : i \in RunStarts(lg)} :
            \A i \in RunStarts(lg) : Len(lg[i].arg.stack) <= d

\* C36: with compute functions that write signals other computeds read, that
\* write the signal they read themselves and that read their own value, every
\* Signals.computed(), set() and batch() returns, with every run it started
\* over, and no run was nested deeper than there are computed signals.
C36_RunsNestBoundedly ==
    [][/\ Depth(log') <= Cardinality(created' \cap Computeds)
       /\ \A i \in RunStarts(log') : NoDuplicates(log'[i].arg.stack)
       /\ Cardinality(RunStarts(log')) = Cardinality(RunEnds(log'))
       /\ computeStack' = <<>>
       /\ \A c \in Computeds : ~computing'[c]]_vars
C36_Witness ==
    /\ lastOp.op = "Set" /\ lastOp.err = "none"
    /\ Depth(log) = 3
    /\ Skips(log, "fwd") # {}
    /\ \E i \in RunStarts(log) : log[i].who = "slf"

AsyncStarts(lg) == {j \in 1..Len(lg) : lg[j].k = "start" /\ lg[j].who = AsyncNode}

\* C37: outside a batch a set() that changes a signal the async computed is
\* subscribed to starts exactly one run of it and returns without an
\* exception, and the scheduler of the async computed is never in the
\* subscriber Set of its own result.
C37_OneRunPerWrite ==
    [][/\ (/\ lastOp'.op = "Set" /\ batchDepth = 0
           /\ AsyncNode \in Range(subs[lastOp'.sig])
           /\ val[lastOp'.sig] # lastOp'.v) =>
              /\ Cardinality(AsyncStarts(log')) = 1
              /\ lastOp'.err = "none"
       /\ AsyncNode \notin Range(subs'[AsyncNode])]_vars

\* The compute functions of dbl, sum and thr applied to the current values;
\* that of thr returns a where it does not throw.
Expected(c) ==
    IF c = "dbl" THEN 2 * val["a"]
    ELSE IF c = "thr" THEN val["a"]
    ELSE val["dbl"] + val["a"]
UpToDate ==
    \A c \in (ThrowComputeds \cap created) \ hist.disposed : val[c] = Expected(c)
TopLevelReturn ==
    lastOp.op \in {"Set", "BatchExit"} /\ batchDepth = 0 /\ lastOp.err = "none"

SignalsOf(f) == {s \in Signals : f \in Range(subs[s])}

\* C39: after a top-level set() or batch() that returned without an
\* exception, a function subscribed through subscribe() to exactly one signal
\* was last called with the current value of that signal, also when
\* subscribers write the signal during the notification.
C39_LastArgIsCurrent ==
    TopLevelReturn =>
        \A f \in PlainFns : \A s \in SignalsOf(f) :
            SignalsOf(f) = {s} => lastArg.arg[f] = val[s]

\* C40: when no Signals.batch is on the call stack, _batchPending is false
\* and _batchQueue is empty, also after a batch whose function threw and
\* after a flush in which a callback threw.
C40_IdleMeansUnbatched ==
    batchDepth = 0 => (~batchPending /\ batchQueue = <<>>)
C40_Witness ==
    /\ lastOp.op = "BatchThrow" /\ lastOp.err = ComputeError
    /\ batchDepth = 0 /\ ~batchPending /\ batchQueue = <<>>
    /\ subs["a"] = <<"thr", "f1">>
    /\ Calls("f1") = {}
====
